---- MODULE Spec2Model ----
(***************************************************************************)
(* The Vulkan driver of the SDL GPU subsystem: device creation             *)
(* (VULKAN_GpuCreateDevice) and physical-device selection                  *)
(* (VULKAN_INTERNAL_DeterminePhysicalDevice, VULKAN_INTERNAL_IsDeviceSuitable, *)
(* VULKAN_INTERNAL_QuerySwapChainSupport, CheckDeviceExtensions).          *)
(*                                                                         *)
(* The backend (the Vulkan loader and the adapters it enumerates) is the   *)
(* environment: the adapters are fixed in Init, the results of the calls   *)
(* that may fail are chosen when the call is made.                         *)
(***************************************************************************)
EXTENDS Integers, Sequences, FiniteSets, TLC

VARIABLES
    adapters,        \* the backend's adapters at the time of the list query
    pc,              \* position inside VULKAN_GpuCreateDevice
    run,             \* number of the current VULKAN_GpuCreateDevice call
    first,           \* what the first call's adapter selection ended with
    deviceData,      \* contents of the VULKAN_GpuDeviceData block
    locals,          \* locals of VULKAN_INTERNAL_DeterminePhysicalDevice
    countQueryResult,\* VkResult of vkEnumeratePhysicalDevices(count only)
    listQueryResult, \* VkResult of vkEnumeratePhysicalDevices(list)
    determineRet,    \* value returned by DeterminePhysicalDevice, -1: not yet
    result,          \* value returned by VULKAN_GpuCreateDevice, 1: not yet
    device,          \* the SDL_GpuDevice handed to VULKAN_GpuCreateDevice
    live,            \* resources created by this call and not released
    instanceCall,    \* the call of VULKAN_INTERNAL_CreateInstance, step by step
    app,             \* the clear-screen example: its statics and its result
    threads,         \* each application thread: its position and locals
    lockOwner,       \* thread holding acquireCommandBufferLock, 0: none
    hashTable,       \* items of commandPoolHashTable, in insertion order
    commandPools,    \* the VULKAN_CommandPool structures allocated
    commandBuffers,  \* the VULKAN_CommandBufferData structures allocated
    cmdbufs,         \* the SDL_GpuCommandBuffer objects of the application
    fences,          \* the SDL_GpuFence objects of the application
    failures,        \* number of backend calls that have returned an error
    alive            \* FALSE once the process has died

\* The state of device creation and the state of the created device's use.
deviceVars == <<adapters, pc, run, first, deviceData, locals,
                countQueryResult, listQueryResult, determineRet, result,
                device, live, instanceCall, app>>

poolVars == <<threads, lockOwner, hashTable, commandPools, commandBuffers,
              cmdbufs, fences, failures, alive>>

vars == <<deviceVars, poolVars>>

----------------------------------------------------------------------------
(* Bounds of the model *)

MaxAdapters == 3
MaxFamilies == 2
MaxFormats == 1
MaxPresentModes == 1
MaxRuns == 2
MaxAdaptersTwice == 2
MaxThreads == 2
MaxAcquires == 3
MaxFences == 1
MaxFailures == 1
MaxPassBuffers == 2
MaxUseBuffers == 2
MaxOpBuffers == 1

----------------------------------------------------------------------------
(* Program constants *)

VK_PHYSICAL_DEVICE_TYPE_OTHER == 0
VK_PHYSICAL_DEVICE_TYPE_INTEGRATED_GPU == 1
VK_PHYSICAL_DEVICE_TYPE_DISCRETE_GPU == 2
VK_PHYSICAL_DEVICE_TYPE_VIRTUAL_GPU == 3
VK_PHYSICAL_DEVICE_TYPE_CPU == 4

DeviceTypes == VK_PHYSICAL_DEVICE_TYPE_OTHER .. VK_PHYSICAL_DEVICE_TYPE_CPU

INT32_MAX == 2147483647

\* DEVICE_PRIORITY with integrated and virtual exchanged.
DEVICE_PRIORITY_VirtualFirst == <<0, 2, 4, 3, 1>>

\* static const uint8_t DEVICE_PRIORITY[], indexed by VkPhysicalDeviceType.
DEVICE_PRIORITY == <<0, 3, 4, 2, 1>>

DevicePriority(deviceType) == DEVICE_PRIORITY[deviceType + 1]

RequiredExtensions ==
    {"KHR_swapchain", "KHR_maintenance1", "KHR_dedicated_allocation",
     "KHR_get_memory_requirements2"}

OptionalExtensions ==
    {"KHR_driver_properties", "KHR_portability_subset", "GGP_frame_token"}

\* The fields of struct VulkanExtensions.
VulkanExtensions == RequiredExtensions \cup OptionalExtensions

\* "VK_" #ext
VkName(ext) == "VK_" \o ext

\* SDL_SetError() and SDL_OutOfMemory() always return -1.
SDL_SetError == 0 - 1

\* Conversion of an int to the uint8_t a function returns.
ToUint8(x) == x % 256

\* VULKAN_SET_ERROR(res, fn) inside a function returning uint8_t: the value
\* the function returns when res != VK_SUCCESS.
VULKAN_SET_ERROR_uint8 == ToUint8(SDL_SetError)

----------------------------------------------------------------------------
(* Extension negotiation *)

\* SDL_memset(supports, '\0', sizeof(VulkanExtensions))
ZeroExtensions == [ext \in VulkanExtensions |-> 0]

\* CheckDeviceExtensions' loop: a field is set to 1 when one advertised name
\* compares equal to "VK_" followed by the field's name.  `extensions` is
\* the set of the names in the VkExtensionProperties array.
SupportedExtensions(extensions) ==
    [ext \in VulkanExtensions |->
        IF \E name \in extensions : name = VkName(ext) THEN 1 ELSE 0]

\* The value CheckDeviceExtensions returns, with one optional extension
\* demanded as well.
AllExtensionsSupported_Optional(supports) ==
    IF /\ \A ext \in RequiredExtensions : supports[ext] # 0
       /\ supports["KHR_driver_properties"] # 0
    THEN 1 ELSE 0

\* The value CheckDeviceExtensions returns.
AllExtensionsSupported(supports) ==
    IF /\ supports["KHR_swapchain"] # 0
       /\ supports["KHR_maintenance1"] # 0
       /\ supports["KHR_dedicated_allocation"] # 0
       /\ supports["KHR_get_memory_requirements2"] # 0
    THEN 1 ELSE 0

----------------------------------------------------------------------------
(* Queue family choice *)

\* queueFamilyRank of a graphics- and present-capable family.
QueueFamilyRank(props) ==
    IF props.compute THEN (IF props.transfer THEN 3 ELSE 2) ELSE 1

\* vkGetPhysicalDeviceSurfaceSupportKHR(physicalDevice, index, surface):
\* an index the adapter does not have supports nothing.
SurfaceSupport(adapter, index) ==
    /\ index >= 0
    /\ index < Len(adapter.queueProps)
    /\ adapter.queueProps[index + 1].present

\* The update of the loop with >= for >: the last family of a rank wins.
BetterFamily_LastWins(queueFamilyRank, queueFamilyBest) ==
    queueFamilyRank >= queueFamilyBest

\* if (queueFamilyRank > queueFamilyBest)
BetterFamily(queueFamilyRank, queueFamilyBest) ==
    queueFamilyRank > queueFamilyBest

\* The loop over the queue families, from family i on.
RECURSIVE ScanQueueFamilies(_, _, _, _)
ScanQueueFamilies(adapter, i, queueFamilyBest, queueFamilyIndex) ==
    IF i >= Len(adapter.queueProps)
    THEN queueFamilyIndex
    ELSE IF \/ ~ SurfaceSupport(adapter, i)
            \/ ~ adapter.queueProps[i + 1].graphics
         THEN ScanQueueFamilies(adapter, i + 1, queueFamilyBest,
                                queueFamilyIndex)
         ELSE IF BetterFamily(QueueFamilyRank(adapter.queueProps[i + 1]),
                              queueFamilyBest)
              THEN ScanQueueFamilies(adapter, i + 1,
                       QueueFamilyRank(adapter.queueProps[i + 1]), i)
              ELSE ScanQueueFamilies(adapter, i + 1, queueFamilyBest,
                                     queueFamilyIndex)

\* queueFamilyBest = 0; *queueFamilyIndex = INT32_MAX; for (...)
ChooseQueueFamily(adapter) == ScanQueueFamilies(adapter, 0, 0, INT32_MAX)

----------------------------------------------------------------------------
(* Swapchain support query *)

\* The backend queries of VULKAN_INTERNAL_QuerySwapChainSupport that may
\* return an error; an adapter names the one that fails for it, or "none".
SwapQueries ==
    {"capabilities", "formatCount", "presentModeCount", "formatList",
     "presentModeList"}

\* Values an uninitialized uint32_t may hold: zero, or something else.
UninitValues == {0, 1}

\* SwapChainSupportDetails swapchainSupportDetails as declared in
\* VULKAN_INTERNAL_IsDeviceSuitable: nothing is initialized.  The arrays are
\* "uninit", "live" (allocated) or "freed"; badFrees counts the calls of
\* SDL_free on an array that is not live.
UninitDetails(garbage) ==
    [formatsLength |-> garbage[1], presentModesLength |-> garbage[2],
     formats |-> "uninit", presentModes |-> "uninit", badFrees |-> 0]

\* SDL_free(details->formats) or SDL_free(details->presentModes)
SDL_free(details, array) ==
    [details EXCEPT ![array] = "freed",
                    !.badFrees = @ + (IF details[array] = "live" THEN 0 ELSE 1)]

\* VULKAN_INTERNAL_QuerySwapChainSupport(deviceData, physicalDevice, surface,
\* outputDetails): the value returned and *outputDetails afterwards.  A
\* query that returns an error leaves its count as it was.
QuerySwapChainSupport(data, adapter, outputDetails) ==
    IF ~ SurfaceSupport(adapter, data.queueFamilyIndex)
    THEN [ret |-> 0, details |-> outputDetails]
    ELSE
    LET d1 == [outputDetails EXCEPT !.formatsLength = 0,
                                    !.presentModesLength = 0]
        d2 == [d1 EXCEPT !.formatsLength = adapter.formats]
        d3 == [d2 EXCEPT !.presentModesLength = adapter.presentModes]
        d4 == IF d3.formatsLength # 0
              THEN [d3 EXCEPT !.formats = "live"] ELSE d3
        d5 == IF d4.presentModesLength # 0
              THEN [d4 EXCEPT !.presentModes = "live"] ELSE d4
    IN  IF adapter.swapError = "capabilities"
        THEN [ret |-> VULKAN_SET_ERROR_uint8, details |-> d1]
        ELSE IF adapter.swapError = "formatCount"
        THEN [ret |-> VULKAN_SET_ERROR_uint8, details |-> d1]
        ELSE IF adapter.swapError = "presentModeCount"
        THEN [ret |-> VULKAN_SET_ERROR_uint8, details |-> d2]
        ELSE IF d3.formatsLength # 0 /\ adapter.swapError = "formatList"
        THEN [ret |-> 0, details |-> SDL_free(d4, "formats")]
        ELSE IF d4.presentModesLength # 0
                /\ adapter.swapError = "presentModeList"
        THEN [ret |-> 0,
              details |-> SDL_free(SDL_free(d5, "formats"), "presentModes")]
        ELSE [ret |-> 1, details |-> d5]

----------------------------------------------------------------------------
(* Suitability of one adapter *)

\* The tail of VULKAN_INTERNAL_IsDeviceSuitable with || for &&.
SwapChainUsable_Either(querySuccess, details) ==
    IF querySuccess # 0
       /\ (details.formatsLength > 0 \/ details.presentModesLength > 0)
    THEN 1 ELSE 0

\* return (querySuccess && formatsLength > 0 && presentModesLength > 0)
SwapChainUsable(querySuccess, details) ==
    IF /\ querySuccess # 0
       /\ details.formatsLength > 0
       /\ details.presentModesLength > 0
    THEN 1 ELSE 0

\* The two conditional SDL_free calls that follow the swapchain query.
FreeDetails(details) ==
    LET f == IF details.formatsLength > 0
             THEN SDL_free(details, "formats") ELSE details
    IN  IF f.presentModesLength > 0 THEN SDL_free(f, "presentModes") ELSE f

\* VULKAN_INTERNAL_IsDeviceSuitable(deviceData, physicalDevice,
\* physicalDeviceExtensions, surface, queueFamilyIndex, deviceRank):
\* the value returned, *deviceRank and *queueFamilyIndex afterwards, whether
\* *physicalDeviceExtensions was written and with what, and the swapchain
\* details after the two conditional frees.  `garbage` is what the
\* uninitialized lengths of the details hold.
IsDeviceSuitable(data, adapter, deviceRank, queueFamilyIndex, garbage) ==
    LET priority == DevicePriority(adapter.deviceType)
        rank == IF deviceRank < priority THEN priority ELSE deviceRank
        supports == SupportedExtensions(adapter.extensions)
        family == ChooseQueueFamily(adapter)
        query == QuerySwapChainSupport(data, adapter, UninitDetails(garbage))
        untouched == UninitDetails(<<0, 0>>)
    IN  IF deviceRank > priority
        THEN [ret |-> 0, deviceRank |-> 0,
              queueFamilyIndex |-> queueFamilyIndex,
              written |-> FALSE, extensions |-> ZeroExtensions,
              details |-> untouched]
        ELSE IF AllExtensionsSupported(supports) = 0
        THEN [ret |-> 0, deviceRank |-> rank,
              queueFamilyIndex |-> queueFamilyIndex,
              written |-> TRUE, extensions |-> supports,
              details |-> untouched]
        ELSE IF family = INT32_MAX
        THEN [ret |-> 0, deviceRank |-> rank, queueFamilyIndex |-> family,
              written |-> TRUE, extensions |-> supports,
              details |-> untouched]
        ELSE [ret |-> SwapChainUsable(query.ret, query.details),
              deviceRank |-> rank, queueFamilyIndex |-> family,
              written |-> TRUE, extensions |-> supports,
              details |-> FreeDetails(query.details)]

----------------------------------------------------------------------------
(* The selection loop *)

\* The adapter behind the handle physicalDevices[i] (i counts from 0).
AdapterAt(loc, i) == adapters[loc.physicalDevices[i + 1]]

\* The loop body without the branch that handles an unsuitable adapter of a
\* higher rank.
AfterCheck_KeepLower(loc, suitable) ==
    IF suitable.ret # 0
    THEN [loc EXCEPT !.suitableIndex = loc.i,
                     !.suitableQueueFamilyIndex = suitable.queueFamilyIndex,
                     !.highestRank = suitable.deviceRank]
    ELSE loc

\* The loop body with highestRank left as it was when an adapter is accepted.
AfterCheck_KeepRank(loc, suitable) ==
    IF suitable.ret # 0
    THEN [loc EXCEPT !.suitableIndex = loc.i,
                     !.suitableQueueFamilyIndex = suitable.queueFamilyIndex]
    ELSE IF suitable.deviceRank > loc.highestRank
         THEN [loc EXCEPT !.suitableIndex = -1,
                          !.highestRank = suitable.deviceRank]
         ELSE loc

\* The loop body with an accepted adapter kept when a later adapter of the
\* same rank is suitable.
AfterCheck_FirstWins(loc, suitable) ==
    IF suitable.ret # 0
    THEN IF loc.suitableIndex # -1
            /\ suitable.deviceRank = loc.highestRank
         THEN loc
         ELSE [loc EXCEPT
                 !.suitableIndex = loc.i,
                 !.suitableQueueFamilyIndex = suitable.queueFamilyIndex,
                 !.highestRank = suitable.deviceRank]
    ELSE IF suitable.deviceRank > loc.highestRank
         THEN [loc EXCEPT !.suitableIndex = -1,
                          !.highestRank = suitable.deviceRank]
         ELSE loc

\* The loop body with the accepted adapter discarded also by an unsuitable
\* adapter of the same rank.
AfterCheck_ClearsOnEqual(loc, suitable) ==
    IF suitable.ret # 0
    THEN [loc EXCEPT !.suitableIndex = loc.i,
                     !.suitableQueueFamilyIndex = suitable.queueFamilyIndex,
                     !.highestRank = suitable.deviceRank]
    ELSE IF suitable.deviceRank >= loc.highestRank
         THEN [loc EXCEPT !.suitableIndex = -1,
                          !.highestRank = suitable.deviceRank]
         ELSE loc

\* The if / else if of the loop body, given what IsDeviceSuitable returned.
AfterCheck(loc, suitable) ==
    IF suitable.ret # 0
    THEN [loc EXCEPT !.suitableIndex = loc.i,
                     !.suitableQueueFamilyIndex = suitable.queueFamilyIndex,
                     !.highestRank = suitable.deviceRank]
    ELSE IF suitable.deviceRank > loc.highestRank
         THEN [loc EXCEPT !.suitableIndex = -1,
                          !.highestRank = suitable.deviceRank]
         ELSE loc

\* One iteration of the loop over physicalDevices: deviceRank = highestRank,
\* the call of IsDeviceSuitable with &physicalDeviceExtensions[i] and
\* &queueFamilyIndex, the if / else if, and i += 1.
LoopBodyOn(data, loc, adapter, garbage) ==
    LET suitable == IsDeviceSuitable(data, adapter, loc.highestRank,
                                     loc.queueFamilyIndex, garbage)
    IN  [AfterCheck(loc, suitable) EXCEPT
            !.i = loc.i + 1,
            !.queueFamilyIndex = suitable.queueFamilyIndex,
            !.physicalDeviceExtensions[loc.i + 1] =
                IF suitable.written
                THEN [written |-> TRUE, extensions |-> suitable.extensions]
                ELSE @,
            !.details = suitable.details]

\* The iteration for physicalDevices[i].
LoopBody(data, loc, garbage) ==
    LoopBodyOn(data, loc, AdapterAt(loc, loc.i), garbage)

\* The locals before DeterminePhysicalDevice has assigned any of them; the
\* values stand for indeterminate ones and are never read.
NoLocals ==
    [physicalDevices |-> <<>>, physicalDeviceCount |-> 0,
     physicalDeviceExtensions |-> <<>>, suitableIndex |-> -1,
     highestRank |-> 0, i |-> 0, queueFamilyIndex |-> 0,
     suitableQueueFamilyIndex |-> -1, details |-> UninitDetails(<<0, 0>>)]

\* physicalDevices and physicalDeviceExtensions after the list query wrote
\* `count` handles, then suitableIndex = -1; highestRank = 0; i = 0.
LoopStart(loc, count) ==
    [loc EXCEPT !.physicalDevices = [k \in 1..count |-> k],
                !.physicalDeviceCount = count,
                !.physicalDeviceExtensions =
                    [k \in 1..count |->
                        [written |-> FALSE, extensions |-> ZeroExtensions]],
                !.suitableIndex = -1,
                !.highestRank = 0,
                !.i = 0]

\* VK_INCOMPLETE kept as the error it is not.
AfterIncomplete_Fails(vulkanResult) == vulkanResult

\* if (vulkanResult == VK_INCOMPLETE) { ...; vulkanResult = VK_SUCCESS; }
AfterIncomplete(vulkanResult) ==
    IF vulkanResult = "VK_INCOMPLETE" THEN "VK_SUCCESS" ELSE vulkanResult

\* The assignments to deviceData when suitableIndex != -1.
CommitDevice(data, loc) ==
    [data EXCEPT
        !.supportedExtensions =
            loc.physicalDeviceExtensions[loc.suitableIndex + 1].extensions,
        !.physicalDevice = loc.physicalDevices[loc.suitableIndex + 1],
        !.queueFamilyIndex = loc.suitableQueueFamilyIndex]

----------------------------------------------------------------------------
(* Device creation *)

\* The VULKAN_GpuDeviceData block after SDL_memset(deviceData, '\0', ...).
\* Handles are 0 (VK_NULL_HANDLE) or the adapter's position; the objects the
\* block points to are present (TRUE) or not.
ZeroDeviceData ==
    [instance |-> FALSE, physicalDevice |-> 0, queueFamilyIndex |-> 0,
     supportedExtensions |-> ZeroExtensions, logicalDevice |-> FALSE,
     unifiedQueue |-> FALSE, commandPoolHashTable |-> FALSE,
     acquireCommandBufferLock |-> FALSE]

\* The block as SDL_malloc hands it out, without the memset: what the memory
\* held before.
NoSafetyZero(block) == block

\* Safety zero: SDL_memset(deviceData, '\0', sizeof(VULKAN_GpuDeviceData))
SafetyZero(block) == ZeroDeviceData

\* The function-valued slots of an SDL_GpuDevice, as the drivers know them:
\* those the dummy driver's VULKAN_GpuCreateDevice assigns.
OperationTable ==
    {
     "AbandonCommandBuffer", "ClaimWindow", "CopyBetweenTextures",
     "CopyBufferCpuToGpu", "CopyBufferGpuToCpu", "CopyBufferGpuToGpu",
     "CopyFromBufferToTexture", "CopyFromTextureToBuffer", "CreateBuffer",
     "CreateCommandBuffer", "CreateCpuBuffer", "CreateFence",
     "CreatePipeline", "CreateSampler", "CreateShader", "CreateTexture",
     "DestroyBuffer", "DestroyCpuBuffer", "DestroyDevice", "DestroyFence",
     "DestroyPipeline", "DestroySampler", "DestroyShader",
     "DestroyTexture", "Draw", "DrawIndexed", "DrawInstanced",
     "DrawInstancedIndexed", "EndBlitPass", "EndRenderPass", "FillBuffer",
     "GenerateMipmaps", "GetBackbuffer", "LockCpuBuffer", "Present",
     "QueryFence", "ResetFence", "SetRenderPassBlendConstant",
     "SetRenderPassFragmentBuffer", "SetRenderPassFragmentSampler",
     "SetRenderPassFragmentTexture", "SetRenderPassPipeline",
     "SetRenderPassScissor", "SetRenderPassVertexBuffer",
     "SetRenderPassVertexSampler", "SetRenderPassVertexTexture",
     "SetRenderPassViewport", "StartBlitPass", "StartRenderPass",
     "SubmitCommandBuffer", "UnlockCpuBuffer", "WaitFence"
    }

\* The slots the assignments at the end of the Vulkan driver's
\* VULKAN_GpuCreateDevice set, from device->DestroyDevice to
\* device->WaitFence.
AssignedSlots ==
    {
     "DestroyDevice", "ClaimWindow", "CreateCpuBuffer", "DestroyCpuBuffer",
     "LockCpuBuffer", "UnlockCpuBuffer", "CreateBuffer", "DestroyBuffer",
     "CreateTexture", "DestroyTexture", "CreateShader", "DestroyShader",
     "CreatePipeline", "DestroyPipeline", "CreateSampler",
     "DestroySampler", "CreateCommandBuffer", "StartRenderPass",
     "SetRenderPassPipeline", "SetRenderPassViewport",
     "SetRenderPassScissor", "SetRenderPassBlendConstant",
     "SetRenderPassVertexBuffer", "SetRenderPassVertexSampler",
     "SetRenderPassVertexTexture", "SetRenderPassFragmentBuffer",
     "SetRenderPassFragmentSampler", "SetRenderPassFragmentTexture",
     "Draw", "DrawIndexed", "DrawInstanced", "DrawInstancedIndexed",
     "EndRenderPass", "StartBlitPass", "CopyBetweenTextures", "FillBuffer",
     "GenerateMipmaps", "CopyBufferCpuToGpu", "CopyBufferGpuToCpu",
     "CopyBufferGpuToGpu", "CopyFromBufferToTexture",
     "CopyFromTextureToBuffer", "EndBlitPass", "SubmitCommandBuffer",
     "AbandonCommandBuffer", "GetBackbuffer", "Present", "CreateFence",
     "DestroyFence", "QueryFence", "ResetFence", "WaitFence"
    }

\* The instance extensions of the model: the one SDL asks for on behalf of
\* the window, the one the driver always adds, and the optional one.
VK_KHR_SURFACE == "VK_KHR_surface"
VK_KHR_GET_PHYSICAL_DEVICE_PROPERTIES_2 ==
    "VK_KHR_get_physical_device_properties2"
VK_EXT_DEBUG_UTILS == "VK_EXT_debug_utils"
InstanceExtensions ==
    {VK_KHR_SURFACE, VK_KHR_GET_PHYSICAL_DEVICE_PROPERTIES_2,
     VK_EXT_DEBUG_UTILS}

\* color_target_info.clear_color.r of the frame drawn last, as the exact
\* quotient num / den; NoColor when no frame has been drawn.
NoColor == [num |-> -1, den |-> 1]

\* The statics of the clear-screen example as the program is loaded, before
\* SDL_AppInit has run.
NoApp == [red |-> 0, fade_direction |-> 1, clear_color_r |-> NoColor,
          result |-> "none"]

\* VULKAN_INTERNAL_CreateInstance before it is called: the debugMode
\* argument of VULKAN_GpuCreateDevice, the instance extensions and whether
\* the validation layer the backend advertises, the debugMode and
\* supportsDebugUtils fields of the device data, and the locals
\* instanceExtensionNames and instanceCreateInfo.
NoInstanceCall ==
    [pc |-> "none", debugModeArg |-> 0, available |-> {},
     validationLayer |-> FALSE, debugMode |-> 0, supportsDebugUtils |-> 0,
     instanceExtensionNames |-> <<>>, pfnUserCallback |-> "unset",
     pNext |-> "NULL", enabledLayerCount |-> 0, ret |-> -1]

\* The SDL_GpuDevice before the driver has touched it: no driver data and
\* no slot of the table set.
NoDevice == [driverdata |-> FALSE, slots |-> {}]

NoFirst ==
    [listed |-> FALSE, physicalDevices |-> <<>>, ret |-> -1,
     physicalDevice |-> 0, queueFamilyIndex |-> 0]

----------------------------------------------------------------------------
(* The adapters the backend may expose *)

RequiredNames == {VkName(ext) : ext \in RequiredExtensions}
OptionalNames == {VkName(ext) : ext \in OptionalExtensions}

\* A name no field matches, although it extends one that does.
OtherNames == {"VK_KHR_swapchain_mutable_format"}

QueueFamilies ==
    [graphics : BOOLEAN, compute : BOOLEAN, transfer : BOOLEAN,
     present : BOOLEAN]

Family(g, c, t, p) ==
    [graphics |-> g, compute |-> c, transfer |-> t, present |-> p]

Adapter(type, exts, props, nFormats, nModes, err) ==
    [deviceType |-> type, extensions |-> exts, queueProps |-> props,
     formats |-> nFormats, presentModes |-> nModes, swapError |-> err]

SeqsUpTo(S, n) == UNION {[1..k -> S] : k \in 0..n}

\* An adapter of the given type that passes every check, and one that lacks
\* VK_KHR_swapchain.
GoodAdapter(type) ==
    Adapter(type, RequiredNames, <<Family(TRUE, TRUE, TRUE, TRUE)>>, 1, 1,
            "none")
BadAdapter(type) ==
    Adapter(type, RequiredNames \ {"VK_KHR_swapchain"},
            <<Family(TRUE, TRUE, TRUE, TRUE)>>, 1, 1, "none")

\* The device types of the three highest priorities.
GpuTypes ==
    {VK_PHYSICAL_DEVICE_TYPE_DISCRETE_GPU,
     VK_PHYSICAL_DEVICE_TYPE_INTEGRATED_GPU,
     VK_PHYSICAL_DEVICE_TYPE_VIRTUAL_GPU}

\* Lists of adapters, suitable or not: pairs of every device type, and
\* longer lists of the GPU types.
RankLists ==
    [1..2 -> {GoodAdapter(t) : t \in DeviceTypes}
                \cup {BadAdapter(t) : t \in DeviceTypes}]
    \cup SeqsUpTo({GoodAdapter(t) : t \in GpuTypes}
                    \cup {BadAdapter(t) : t \in GpuTypes}, MaxAdapters)

\* One adapter with every queue family table of up to MaxFamilies families.
QueueLists ==
    {<<Adapter(VK_PHYSICAL_DEVICE_TYPE_DISCRETE_GPU, RequiredNames, props,
               1, 1, "none")>> : props \in SeqsUpTo(QueueFamilies, MaxFamilies)}

\* One adapter with every outcome of the swapchain queries.
SwapLists ==
    {<<Adapter(VK_PHYSICAL_DEVICE_TYPE_DISCRETE_GPU, RequiredNames, props,
               nf, nm, err)>> :
        props \in {<<Family(TRUE, TRUE, TRUE, TRUE)>>,
                   <<Family(FALSE, TRUE, TRUE, FALSE),
                     Family(TRUE, TRUE, TRUE, TRUE)>>},
        nf \in 0..MaxFormats, nm \in 0..MaxPresentModes,
        err \in SwapQueries \cup {"none"}}

\* One adapter with every set of advertised extension names, and pairs of
\* adapters that differ in class and in what they advertise.
ExtensionLists ==
    {<<Adapter(VK_PHYSICAL_DEVICE_TYPE_DISCRETE_GPU, exts,
               <<Family(TRUE, TRUE, TRUE, TRUE)>>, 1, 1, "none")>> :
        exts \in SUBSET (RequiredNames \cup OptionalNames \cup OtherNames)}
    \cup
    [1..2 ->
        {Adapter(t, exts, <<Family(TRUE, TRUE, TRUE, TRUE)>>, 1, 1, "none") :
            t \in {VK_PHYSICAL_DEVICE_TYPE_DISCRETE_GPU,
                   VK_PHYSICAL_DEVICE_TYPE_INTEGRATED_GPU},
            exts \in {RequiredNames, RequiredNames \cup OptionalNames,
                      OptionalNames \cup OtherNames}}]

\* Pairs of adapters of one class whose two queue families differ in what
\* they can present.
PresentLists ==
    [1..2 ->
        {Adapter(VK_PHYSICAL_DEVICE_TYPE_DISCRETE_GPU, RequiredNames, props,
                 1, 1, "none") :
            props \in {<<Family(FALSE, FALSE, TRUE, TRUE),
                         Family(TRUE, TRUE, TRUE, TRUE)>>,
                       <<Family(TRUE, TRUE, FALSE, FALSE),
                         Family(TRUE, FALSE, FALSE, TRUE)>>,
                       <<Family(TRUE, FALSE, FALSE, TRUE),
                         Family(FALSE, TRUE, TRUE, FALSE)>>}}]

AdapterLists ==
    RankLists \cup QueueLists \cup SwapLists \cup ExtensionLists
        \cup PresentLists

----------------------------------------------------------------------------
(* Command pools: the data and the functions that work on it *)

\* A uint32_t is kept as its two 16-bit halves, so that its arithmetic
\* wraps as the machine's does.
Uint32(n) == [hi |-> (n \div 65536) % 65536, lo |-> n % 65536]
Value32(u) == u.hi * 65536 + u.lo
Add32(a, b) ==
    LET lo == a.lo + b.lo
    IN  [hi |-> (a.hi + b.hi + lo \div 65536) % 65536, lo |-> lo % 65536]
Sub32(a, b) ==
    LET lo == a.lo - b.lo
    IN  [hi |-> (a.hi - b.hi - (IF lo < 0 THEN 1 ELSE 0)) % 65536,
         lo |-> lo % 65536]
LessEq32(a, b) == a.hi < b.hi \/ (a.hi = b.hi /\ a.lo <= b.lo)

\* The application threads and SDL_ThreadID() of each, a 64-bit value kept
\* as its four 16-bit parts, highest first.  Threads 1 and 2 differ above
\* bit 31 only; thread 3 is of another bucket of the hash table; thread 4
\* differs from thread 1 by the number of buckets.
Threads == 1..MaxThreads
ThreadID(t) ==
    CASE t = 1 -> <<0, 0, 0, 1>>
      [] t = 2 -> <<0, 1, 0, 1>>
      [] t = 3 -> <<0, 0, 0, 2>>
      [] OTHER -> <<0, 0, 0, 512 + t - 3>>
ThreadIDs == {ThreadID(t) : t \in Threads}

\* HashCommandPool: return (uint32_t) key;
HashCommandPool(key) == [hi |-> key[3], lo |-> key[4]]

\* KeyMatchCommandPool(a, b): both keys are thread IDs cast to pointers, and
\* are read as pointers to a VULKAN_CommandPool; `read` is what the memory
\* at each of these addresses holds in the place of threadID.
KeyMatchCommandPool(a, b, read) == read[a] = read[b]

\* What the memory at the addresses the thread IDs name may hold.
Reads == [ThreadIDs -> {0, 1}]

\* The hash table maps keys to values; an item is [key, value].  The items
\* a lookup of `key` compares with: those of the bucket of its hash.
NumBuckets == 512
Chain(table, key) ==
    SelectSeq(table, LAMBDA item :
        Value32(HashCommandPool(item.key)) % NumBuckets
            = Value32(HashCommandPool(key)) % NumBuckets)

\* SDL_FindInHashTable: the value of the first item of the chain that the
\* table's keymatch accepts, 0 when it accepts none.
FindInHashTable(table, key, read) ==
    LET chain == Chain(table, key)
        hits == {i \in 1..Len(chain) :
                    KeyMatchCommandPool(key, chain[i].key, read)}
    IN  IF hits = {} THEN 0
        ELSE chain[CHOOSE i \in hits : \A j \in hits : i <= j].value

\* SDL_InsertIntoHashTable.
InsertIntoHashTable(table, key, value) ==
    Append(table, [key |-> key, value |-> value])

\* A VULKAN_CommandPool after FetchCommandPool has set its fields.  The
\* array inactiveCommandBuffers is kept as the slots written so far; the
\* free list is its first inactiveCommandBufferCount slots.
NewCommandPool(threadID) ==
    [threadID |-> threadID, inactiveCommandBuffers |-> <<>>,
     inactiveCommandBufferCapacity |-> Uint32(0),
     inactiveCommandBufferCount |-> Uint32(0)]

\* A VULKAN_CommandBufferData as AllocateCommandBuffers sets it; state is
\* the state of the native command buffer.
NewCommandBufferData(pool) ==
    [commandPool |-> pool, submitted |-> 0, state |-> "initial"]

\* The loop of AllocateCommandBuffers: slot inactiveCommandBufferCount is
\* written and the count raised, once for each new buffer.
AppendBuffers(p, ids) ==
    LET c == Value32(p.inactiveCommandBufferCount)
        n == Len(ids)
        old == p.inactiveCommandBuffers
        top == IF Len(old) > c + n THEN Len(old) ELSE c + n
    IN  [p EXCEPT
            !.inactiveCommandBuffers =
                [k \in 1..top |->
                    IF k > c /\ k <= c + n THEN ids[k - c] ELSE old[k]],
            !.inactiveCommandBufferCount = Add32(@, Uint32(n))]

\* VULKAN_INTERNAL_AllocateCommandBuffers(deviceData, vulkanCommandPool,
\* allocateCount): the capacity is raised, then vkAllocateCommandBuffers is
\* called; if it fails the function returns, otherwise every new buffer is
\* appended to inactiveCommandBuffers.
AllocateCommandBuffers(pools, buffers, pool, allocateCount, vulkanResult) ==
    LET raised == [pools EXCEPT
                    ![pool].inactiveCommandBufferCapacity =
                        Add32(@, allocateCount)]
        n == Value32(allocateCount)
        ids == [k \in 1..n |-> Len(buffers) + k]
    IN  IF vulkanResult # "VK_SUCCESS"
        THEN [pools |-> raised, buffers |-> buffers]
        ELSE [pools |-> [raised EXCEPT ![pool] = AppendBuffers(@, ids)],
              buffers |-> buffers \o
                    [k \in 1..n |-> NewCommandBufferData(pool)]]

\* The results a backend call may return.
VkResults == {"VK_SUCCESS", "VK_ERROR"}

\* The number of errors among the results of the backend calls of a step.
Errors(results) ==
    Cardinality({i \in 1..Len(results) : results[i] # "VK_SUCCESS"})

\* A thread that is in no call of the driver.  commandPool and
\* commandBufferData are the locals of the call it is in: the index of a
\* structure, 0 for NULL.
IdleThread ==
    [pc |-> "idle", commandPool |-> 0, commandBufferData |-> 0, cmdbuf |-> 0]

\* A pointer that points to no VULKAN_CommandBufferData.
Wild == -1

\* The SDL_GpuCommandBuffer a thread passes to VULKAN_GpuCreateCommandBuffer;
\* cmdbufs[t] holds those of thread t, in the order of its calls.
\* driverdata is as the driver sets it; the other fields record what the
\* call did: the pool it used and how it came by it, the pool's count and
\* capacity when the pool was read, the result of the growth it attempted,
\* the buffer it popped, the steps it took, and what it returned (1: it has
\* not returned).  currently_encoding is the pass that is open, call the
\* last pass call made for the command buffer, which sets ret too.
NewCmdbuf ==
    [driverdata |-> 0, ret |-> 1, ops |-> <<>>,
     pool |-> 0, fetched |-> "none", countAtEntry |-> Uint32(0),
     capacityAtEntry |-> Uint32(0), grew |-> "none", popped |-> 0,
     currently_encoding |-> "none", call |-> "none",
     status |-> "acquiring", fence |-> 0]

\* No thread has called the driver yet.
NothingAcquired ==
    /\ threads = [t \in Threads |-> IdleThread]
    /\ lockOwner = 0
    /\ hashTable = <<>>
    /\ commandPools = <<>>
    /\ commandBuffers = <<>>
    /\ cmdbufs = [t \in Threads |-> <<>>]
    /\ fences = <<>>
    /\ failures = 0
    /\ alive = TRUE

----------------------------------------------------------------------------
(* Initial state: VULKAN_GpuCreateDevice has just been called *)

\* The lists for an application that creates the device more than once.
TwiceLists ==
    SeqsUpTo({GoodAdapter(t) : t \in DeviceTypes}
                \cup {BadAdapter(t) : t \in DeviceTypes}, MaxAdaptersTwice)
        \cup SwapLists \cup PresentLists

Started ==
    /\ pc = "CreateWindow"
    /\ run = 1
    /\ first = NoFirst
    /\ deviceData = ZeroDeviceData
    /\ locals = NoLocals
    /\ countQueryResult = "none"
    /\ listQueryResult = "none"
    /\ determineRet = -1
    /\ result = 1
    /\ device = NoDevice
    /\ live = {}
    /\ NothingAcquired

Init ==
    /\ adapters \in AdapterLists
    /\ instanceCall = NoInstanceCall
    /\ app = NoApp
    /\ Started

InitTwice ==
    /\ adapters \in TwiceLists
    /\ instanceCall = NoInstanceCall
    /\ app = NoApp
    /\ Started

----------------------------------------------------------------------------
(* Steps of VULKAN_GpuCreateDevice *)

\* VULKAN_GpuCreateDevice returns `value`.
Return(value) ==
    /\ result' = value
    /\ pc' = "done"

\* dummyWindowHandle = SDL_CreateWindow(...); NULL: return -1.
CreateDummyWindow ==
    /\ pc = "CreateWindow"
    /\ \E created \in BOOLEAN :
        IF created
        THEN /\ live' = live \cup {"dummyWindow"}
             /\ pc' = "AllocDeviceData"
             /\ UNCHANGED result
        ELSE /\ Return(-1)
             /\ UNCHANGED live
    /\ UNCHANGED <<poolVars, instanceCall, app>>
    /\ UNCHANGED <<adapters, run, first, deviceData, locals,
                   countQueryResult, listQueryResult, determineRet, device>>

\* deviceData = SDL_malloc(...); NULL: return SDL_OutOfMemory(); memset.
AllocDeviceData ==
    /\ pc = "AllocDeviceData"
    /\ \E allocated \in BOOLEAN :
        IF allocated
        THEN /\ deviceData' = SafetyZero(deviceData)
             /\ live' = live \cup {"deviceData"}
             /\ pc' = "CreateInstance"
             /\ UNCHANGED result
        ELSE /\ Return(SDL_SetError)
             /\ UNCHANGED <<deviceData, live>>
    /\ UNCHANGED <<poolVars, instanceCall, app>>
    /\ UNCHANGED <<adapters, run, first, locals, countQueryResult,
                   listQueryResult, determineRet, device>>

\* VULKAN_INTERNAL_CreateInstance; on failure SDL_DestroyWindow, return -1.
CreateInstance ==
    /\ pc = "CreateInstance"
    /\ \E created \in BOOLEAN :
        IF created
        THEN /\ deviceData' = [deviceData EXCEPT !.instance = TRUE]
             /\ live' = live \cup {"instance"}
             /\ pc' = "CreateSurface"
             /\ UNCHANGED result
        ELSE /\ Return(-1)
             /\ live' = live \ {"dummyWindow"}
             /\ UNCHANGED deviceData
    /\ UNCHANGED <<poolVars, instanceCall, app>>
    /\ UNCHANGED <<adapters, run, first, locals, countQueryResult,
                   listQueryResult, determineRet, device>>

\* SDL_Vulkan_CreateSurface(dummyWindowHandle, instance, &dummySurface);
\* on failure return -1.
CreateSurface ==
    /\ pc = "CreateSurface"
    /\ \E created \in BOOLEAN :
        IF created
        THEN /\ live' = live \cup {"dummySurface"}
             /\ pc' = "EnumerateCount"
             /\ UNCHANGED result
        ELSE /\ Return(-1)
             /\ UNCHANGED live
    /\ UNCHANGED <<poolVars, instanceCall, app>>
    /\ UNCHANGED <<adapters, run, first, deviceData, locals,
                   countQueryResult, listQueryResult, determineRet, device>>

\* DeterminePhysicalDevice returns `ret` to VULKAN_GpuCreateDevice:
\* if (!ret) return -1; otherwise vkDestroySurfaceKHR and on to the logical
\* device.
DetermineReturns(ret) ==
    /\ determineRet' = ret
    /\ IF ret = 0
       THEN /\ Return(-1)
            /\ UNCHANGED live
       ELSE /\ live' = live \ {"dummySurface"}
            /\ pc' = "CreateLogicalDevice"
            /\ UNCHANGED result

----------------------------------------------------------------------------
(* Steps of VULKAN_INTERNAL_CreateInstance *)

\* A step of VULKAN_INTERNAL_CreateInstance that changes the call only.
InstanceStep(from, call) ==
    /\ pc = "CreateInstance"
    /\ instanceCall.pc = from
    /\ instanceCall' = call
    /\ UNCHANGED <<adapters, pc, run, first, deviceData, locals,
                   countQueryResult, listQueryResult, determineRet, result,
                   device, live, app>>
    /\ UNCHANGED poolVars

\* VULKAN_GpuCreateDevice calls VULKAN_INTERNAL_CreateInstance(deviceData,
\* dummyWindowHandle).  The device data has been zeroed and nothing has
\* stored the debugMode argument in it: deviceData->debugMode is 0.
EnterCreateInstance ==
    InstanceStep("none",
        [instanceCall EXCEPT !.pc = "LoadLibrary", !.debugMode = 0])

\* SDL_Vulkan_LoadLibrary, SDL_Vulkan_GetVkGetInstanceProcAddr and the two
\* calls of SDL_Vulkan_GetInstanceExtensions; any of them failing: return
\* 0.  Then VK_KHR_get_physical_device_properties2 is appended to the
\* names SDL gave.
GetInstanceExtensions ==
    \E ok \in BOOLEAN :
        InstanceStep("LoadLibrary",
            IF ok
            THEN [instanceCall EXCEPT
                    !.pc = "CheckInstanceExtensions",
                    !.instanceExtensionNames =
                        <<VK_KHR_SURFACE,
                          VK_KHR_GET_PHYSICAL_DEVICE_PROPERTIES_2>>]
            ELSE [instanceCall EXCEPT !.pc = "returns", !.ret = 0])

\* SupportsInstanceExtension(ext, availableExtensions, n)
SupportsInstanceExtension(ext, availableExtensions) ==
    IF ext \in availableExtensions THEN 1 ELSE 0

\* VULKAN_INTERNAL_CheckInstanceExtensions: every name asked for must be
\* advertised, and *supportsDebugUtils is set; a name missing: return 0.
CheckInstanceExtensions ==
    LET names == instanceCall.instanceExtensionNames
        allExtensionsSupported ==
            \A i \in 1..Len(names) :
                SupportsInstanceExtension(names[i],
                                          instanceCall.available) = 1
        supports == SupportsInstanceExtension(VK_EXT_DEBUG_UTILS,
                                              instanceCall.available)
    IN  InstanceStep("CheckInstanceExtensions",
            IF allExtensionsSupported
            THEN [instanceCall EXCEPT !.pc = "DebugUtils",
                                      !.supportsDebugUtils = supports]
            ELSE [instanceCall EXCEPT !.pc = "returns", !.ret = 0,
                                      !.supportsDebugUtils = supports])

\* if (deviceData->debugMode) { if (deviceData->supportsDebugUtils) { the
\* debug extension is appended and debugMessengerCreateInfo filled in } }
EnableDebugUtils ==
    InstanceStep("DebugUtils",
        IF instanceCall.debugMode # 0 /\ instanceCall.supportsDebugUtils # 0
        THEN [instanceCall EXCEPT
                !.pc = "CreateInfo",
                !.instanceExtensionNames = Append(@, VK_EXT_DEBUG_UTILS),
                !.pfnUserCallback = "VULKAN_INTERNAL_DebugCallback"]
        ELSE [instanceCall EXCEPT !.pc = "CreateInfo"])

\* instanceCreateInfo: with debugMode the validation layer is enabled when
\* it is found, and pNext is &debugMessengerCreateInfo when debug utils are
\* supported; without it no layer is enabled.
FillCreateInfo ==
    InstanceStep("CreateInfo",
        IF instanceCall.debugMode # 0
        THEN [instanceCall EXCEPT
                !.pc = "vkCreateInstance",
                !.enabledLayerCount =
                    IF instanceCall.validationLayer THEN 1 ELSE 0,
                !.pNext = IF instanceCall.supportsDebugUtils # 0
                          THEN "debugMessengerCreateInfo" ELSE "NULL"]
        ELSE [instanceCall EXCEPT !.pc = "vkCreateInstance",
                                  !.enabledLayerCount = 0])

\* vkCreateInstance(&instanceCreateInfo, NULL, &deviceData->instance); an
\* error: return 0, otherwise return 1.
CallCreateInstance ==
    \E vulkanResult \in {"VK_SUCCESS", "VK_ERROR"} :
        InstanceStep("vkCreateInstance",
            [instanceCall EXCEPT
                !.pc = "returns",
                !.ret = IF vulkanResult = "VK_SUCCESS" THEN 1 ELSE 0])

\* VULKAN_INTERNAL_CreateInstance returns to VULKAN_GpuCreateDevice: on 0
\* SDL_DestroyWindow and return -1, otherwise on to the dummy surface.
CreateInstanceReturns ==
    /\ pc = "CreateInstance"
    /\ instanceCall.pc = "returns"
    /\ instanceCall' = [instanceCall EXCEPT !.pc = "returned"]
    /\ IF instanceCall.ret # 0
       THEN /\ deviceData' = [deviceData EXCEPT !.instance = TRUE]
            /\ live' = live \cup {"instance"}
            /\ pc' = "CreateSurface"
            /\ UNCHANGED result
       ELSE /\ Return(-1)
            /\ live' = live \ {"dummyWindow"}
            /\ UNCHANGED deviceData
    /\ UNCHANGED <<adapters, run, first, locals, countQueryResult,
                   listQueryResult, determineRet, device, app>>
    /\ UNCHANGED poolVars

----------------------------------------------------------------------------
(* Steps of VULKAN_INTERNAL_DeterminePhysicalDevice *)

\* vkEnumeratePhysicalDevices(instance, &physicalDeviceCount, NULL), then
\* VULKAN_SET_ERROR, then the test for physicalDeviceCount == 0.  The
\* backend reports the adapters it has at that time: those of `adapters`, or
\* only the first of them when others appear before the list query.
EnumerateCount ==
    /\ pc = "EnumerateCount"
    /\ \E vulkanResult \in {"VK_SUCCESS", "VK_ERROR"} :
        /\ countQueryResult' = vulkanResult
        /\ IF vulkanResult # "VK_SUCCESS"
           THEN /\ DetermineReturns(VULKAN_SET_ERROR_uint8)
                /\ UNCHANGED locals
           ELSE \E count \in 0..Len(adapters) :
                /\ locals' = [locals EXCEPT !.physicalDeviceCount = count]
                /\ IF count = 0
                   THEN DetermineReturns(0)
                   ELSE /\ pc' = "EnumerateList"
                        /\ UNCHANGED <<determineRet, result, live>>
    /\ UNCHANGED <<poolVars, instanceCall, app>>
    /\ UNCHANGED <<adapters, run, first, deviceData, listQueryResult, device>>

\* What the list query returns when it does not fail: with room for fewer
\* handles than there are adapters it fills the room and says VK_INCOMPLETE.
ListQuery(count) ==
    IF count < Len(adapters) THEN "VK_INCOMPLETE" ELSE "VK_SUCCESS"

\* vkEnumeratePhysicalDevices(instance, &physicalDeviceCount,
\* physicalDevices), the VK_INCOMPLETE and error tests, and the
\* initialization of the loop.
EnumerateList ==
    /\ pc = "EnumerateList"
    /\ \E vulkanResult \in {ListQuery(locals.physicalDeviceCount), "VK_ERROR"} :
        /\ listQueryResult' = vulkanResult
        /\ IF AfterIncomplete(vulkanResult) # "VK_SUCCESS"
           THEN /\ DetermineReturns(0)
                /\ UNCHANGED locals
           ELSE /\ locals' = LoopStart(locals, locals.physicalDeviceCount)
                /\ pc' = "Loop"
                /\ UNCHANGED <<determineRet, result, live>>
    /\ UNCHANGED <<poolVars, instanceCall, app>>
    /\ UNCHANGED <<adapters, run, first, deviceData, countQueryResult, device>>

\* One iteration of the loop.  Calling SDL_free on an array that is not
\* allocated is undefined: the process goes on, or it dies.
CheckDevice ==
    /\ pc = "Loop"
    /\ locals.i < locals.physicalDeviceCount
    /\ \E garbage \in UninitValues \X UninitValues :
        /\ locals' = LoopBody(deviceData, locals, garbage)
        /\ \/ pc' = "Loop"
           \/ /\ locals'.details.badFrees > 0
              /\ pc' = "crashed"
    /\ UNCHANGED <<poolVars, instanceCall, app>>
    /\ UNCHANGED <<adapters, run, first, deviceData, countQueryResult,
                   listQueryResult, determineRet, result, device, live>>

\* After the loop: commit to physicalDevices[suitableIndex] and return 1, or
\* return 0.
FinishSelection ==
    /\ pc = "Loop"
    /\ locals.i >= locals.physicalDeviceCount
    /\ IF locals.suitableIndex # -1
       THEN /\ deviceData' = CommitDevice(deviceData, locals)
            /\ DetermineReturns(1)
       ELSE /\ DetermineReturns(0)
            /\ UNCHANGED deviceData
    /\ UNCHANGED <<poolVars, instanceCall, app>>
    /\ UNCHANGED <<adapters, run, first, locals, countQueryResult,
                   listQueryResult, device>>

----------------------------------------------------------------------------
(* The rest of VULKAN_GpuCreateDevice *)

\* The value VULKAN_INTERNAL_CreateLogicalDevice returns: VULKAN_SET_ERROR
\* after vkCreateDevice, or 1.
CreateLogicalDeviceReturns(vulkanResult) ==
    IF vulkanResult # "VK_SUCCESS" THEN VULKAN_SET_ERROR_uint8 ELSE 1

\* VULKAN_INTERNAL_CreateLogicalDevice and the caller's test of its value.
\* vkCreateDevice on VK_NULL_HANDLE is invalid usage: the loader may fail the
\* call, serve it, or die.
CreateLogicalDevice ==
    /\ pc = "CreateLogicalDevice"
    /\ \E vulkanResult \in {"VK_SUCCESS", "VK_ERROR"} :
        \/ /\ deviceData' =
                IF vulkanResult = "VK_SUCCESS"
                THEN [deviceData EXCEPT !.logicalDevice = TRUE,
                                        !.unifiedQueue = TRUE]
                ELSE deviceData
           /\ live' = IF vulkanResult = "VK_SUCCESS"
                      THEN live \cup {"logicalDevice"} ELSE live
           /\ IF CreateLogicalDeviceReturns(vulkanResult) = 0
              THEN Return(-1)
              ELSE /\ pc' = "CreatePoolTable"
                   /\ UNCHANGED result
        \/ /\ deviceData.physicalDevice = 0
           /\ pc' = "crashed"
           /\ UNCHANGED <<deviceData, live, result>>
    /\ UNCHANGED <<poolVars, instanceCall, app>>
    /\ UNCHANGED <<adapters, run, first, locals, countQueryResult,
                   listQueryResult, determineRet, device>>

\* CreatePoolTable with the driver data and the functions of the device set
\* before the hash table is tested.
CreatePoolTable_SetsFirst ==
    /\ pc = "CreatePoolTable"
    /\ device' = [driverdata |-> TRUE, slots |-> AssignedSlots]
    /\ \E created \in BOOLEAN :
        IF created
        THEN /\ deviceData' = [deviceData EXCEPT
                                  !.acquireCommandBufferLock = TRUE,
                                  !.commandPoolHashTable = TRUE]
             /\ live' = live \cup {"acquireCommandBufferLock",
                                   "commandPoolHashTable"}
             /\ Return(0)
        ELSE /\ deviceData' = [deviceData EXCEPT
                                  !.acquireCommandBufferLock = TRUE]
             /\ live' = live \cup {"acquireCommandBufferLock"}
             /\ Return(-1)
    /\ UNCHANGED <<poolVars, instanceCall, app>>
    /\ UNCHANGED <<adapters, run, first, locals, countQueryResult,
                   listQueryResult, determineRet>>

\* SDL_CreateMutex, SDL_NewHashTable (NULL: return -1), then the driver data
\* and every function of the device are set and 0 is returned.
CreatePoolTable ==
    /\ pc = "CreatePoolTable"
    /\ \E created \in BOOLEAN :
        IF created
        THEN /\ deviceData' = [deviceData EXCEPT
                                  !.acquireCommandBufferLock = TRUE,
                                  !.commandPoolHashTable = TRUE]
             /\ live' = live \cup {"acquireCommandBufferLock",
                                   "commandPoolHashTable"}
             /\ device' = [driverdata |-> TRUE, slots |-> AssignedSlots]
             /\ Return(0)
        ELSE /\ deviceData' = [deviceData EXCEPT
                                  !.acquireCommandBufferLock = TRUE]
             /\ live' = live \cup {"acquireCommandBufferLock"}
             /\ Return(-1)
             /\ UNCHANGED device
    /\ UNCHANGED <<poolVars, instanceCall, app>>
    /\ UNCHANGED <<adapters, run, first, locals, countQueryResult,
                   listQueryResult, determineRet>>

\* What a call's adapter selection ended with.
SelectionOutcome ==
    [listed |-> determineRet # -1
                /\ listQueryResult \in {"VK_SUCCESS", "VK_INCOMPLETE"},
     physicalDevices |-> locals.physicalDevices,
     ret |-> determineRet,
     physicalDevice |-> deviceData.physicalDevice,
     queueFamilyIndex |-> deviceData.queueFamilyIndex]

\* The application calls VULKAN_GpuCreateDevice again, on the same backend.
\* The memory of the previous block is what SDL_malloc may hand out next.
CreateDeviceAgain ==
    /\ pc \in {"done", "crashed"}
    /\ run < MaxRuns
    /\ run' = run + 1
    /\ first' = IF run = 1 /\ SelectionOutcome.listed
                THEN SelectionOutcome ELSE first
    /\ pc' = "CreateWindow"
    /\ locals' = NoLocals
    /\ countQueryResult' = "none"
    /\ listQueryResult' = "none"
    /\ determineRet' = -1
    /\ result' = 1
    /\ device' = NoDevice
    /\ live' = {}
    /\ UNCHANGED <<poolVars, instanceCall, app>>
    /\ UNCHANGED <<adapters, deviceData>>

\* One call of VULKAN_GpuCreateDevice.
Next ==
    \/ CreateDummyWindow
    \/ AllocDeviceData
    \/ CreateInstance
    \/ CreateSurface
    \/ EnumerateCount
    \/ EnumerateList
    \/ CheckDevice
    \/ FinishSelection
    \/ CreateLogicalDevice
    \/ CreatePoolTable

Spec == Init /\ [][Next]_vars

\* The calls VULKAN_GpuCreateDevice can be given and the backends it can
\* meet, as far as the creation of the instance goes.
InitInstance ==
    /\ adapters = <<>>
    /\ instanceCall \in
          {[NoInstanceCall EXCEPT !.debugModeArg = debugMode,
                                  !.available = available,
                                  !.validationLayer = layer] :
             debugMode \in {0, 1}, available \in SUBSET InstanceExtensions,
             layer \in BOOLEAN}
    /\ app = NoApp
    /\ Started

\* VULKAN_GpuCreateDevice up to the return of
\* VULKAN_INTERNAL_CreateInstance, the latter step by step.
NextInstance ==
    \/ CreateDummyWindow
    \/ AllocDeviceData
    \/ EnterCreateInstance
    \/ GetInstanceExtensions
    \/ CheckInstanceExtensions
    \/ EnableDebugUtils
    \/ FillCreateInfo
    \/ CallCreateInstance
    \/ CreateInstanceReturns

SpecInstance == InitInstance /\ [][NextInstance]_vars

\* Up to MaxRuns calls, one after the other.
NextTwice ==
    \/ Next
    \/ CreateDeviceAgain

SpecTwice == InitTwice /\ [][NextTwice]_vars

----------------------------------------------------------------------------
(* Use of the created device: VULKAN_GpuCreateCommandBuffer, by threads *)

\* The state VULKAN_GpuCreateDevice leaves when it has returned 0 for one
\* usable discrete adapter.
DeviceCreated ==
    /\ adapters = <<GoodAdapter(VK_PHYSICAL_DEVICE_TYPE_DISCRETE_GPU)>>
    /\ pc = "done"
    /\ run = 1
    /\ first = NoFirst
    /\ result = 0
    /\ determineRet = 1
    /\ countQueryResult = "VK_SUCCESS"
    /\ listQueryResult = "VK_SUCCESS"
    /\ device = [driverdata |-> TRUE, slots |-> AssignedSlots]
    /\ instanceCall = NoInstanceCall
    /\ app = NoApp
    /\ deviceData =
          [queueFamilyIndex |-> 0,
           supportedExtensions |->
               [KHR_swapchain |-> 1, KHR_maintenance1 |-> 1,
                KHR_dedicated_allocation |-> 1,
                KHR_get_memory_requirements2 |-> 1,
                KHR_driver_properties |-> 0, KHR_portability_subset |-> 0,
                GGP_frame_token |-> 0],
           physicalDevice |-> 1, instance |-> TRUE, logicalDevice |-> TRUE,
           unifiedQueue |-> TRUE, commandPoolHashTable |-> TRUE,
           acquireCommandBufferLock |-> TRUE]
    /\ locals =
          [i |-> 1, queueFamilyIndex |-> 0,
           details |-> [formatsLength |-> 1, presentModesLength |-> 1,
                        formats |-> "freed", presentModes |-> "freed",
                        badFrees |-> 0],
           physicalDevices |-> <<1>>, suitableIndex |-> 0,
           suitableQueueFamilyIndex |-> 0, highestRank |-> 4,
           physicalDeviceExtensions |->
               <<[extensions |-> deviceData.supportedExtensions,
                  written |-> TRUE]>>,
           physicalDeviceCount |-> 1]
    /\ live = {"deviceData", "instance", "logicalDevice",
               "commandPoolHashTable", "acquireCommandBufferLock",
               "dummyWindow"}

\* The process dies: a read or a write of memory that is not the program's.
Dies ==
    /\ alive' = FALSE
    /\ UNCHANGED <<threads, lockOwner, hashTable, commandPools,
                   commandBuffers, cmdbufs, fences, failures>>

\* The command buffers of the application: <<t, c>> is the c-th of thread t.
Cmdbufs == {tc \in Threads \X (1..MaxAcquires) : tc[2] <= Len(cmdbufs[tc[1]])}
Fences == 1..Len(fences)

\* The call of thread t returns `value`; its locals are gone.
ReturnToThread(t, value, status) ==
    /\ threads' = [threads EXCEPT ![t] = IdleThread]
    /\ cmdbufs' = [cmdbufs EXCEPT ![t][threads[t].cmdbuf] =
                      [@ EXCEPT !.ret = value, !.status = status]]

\* Thread t calls VULKAN_GpuCreateCommandBuffer(cmdbuf) for a new cmdbuf, as
\* long as the application has created fewer than `limit`.
EnterCreateCommandBuffer(t, limit) ==
    /\ alive
    /\ threads[t].pc = "idle"
    /\ Cardinality(Cmdbufs) < limit
    /\ cmdbufs' = [cmdbufs EXCEPT ![t] = Append(@, NewCmdbuf)]
    /\ threads' = [threads EXCEPT ![t] =
                      [@ EXCEPT !.pc = "lock",
                                !.cmdbuf = Len(cmdbufs[t]) + 1]]
    /\ UNCHANGED <<lockOwner, hashTable, commandPools, commandBuffers,
                   fences, failures, alive>>
    /\ UNCHANGED deviceVars

\* SDL_LockMutex(deviceData->acquireCommandBufferLock);
LockMutex(t) ==
    /\ alive
    /\ threads[t].pc = "lock"
    /\ lockOwner = 0
    /\ lockOwner' = t
    /\ threads' = [threads EXCEPT ![t].pc = "fetch"]
    /\ UNCHANGED <<hashTable, commandPools, commandBuffers, cmdbufs,
                   fences, failures, alive>>
    /\ UNCHANGED deviceVars

\* VULKAN_INTERNAL_FetchCommandPool(deviceData, threadID): the pool the
\* hash table holds for the thread ID, else a new pool with a first batch
\* of 2 buffers, inserted in the table; NULL if vkCreateCommandPool fails.
\* The lookup calls KeyMatchCommandPool for the items of the key's bucket.
FetchCommandPool(t) ==
    /\ alive
    /\ threads[t].pc = "fetch"
    /\ LET key == ThreadID(t)
           c == threads[t].cmdbuf
           new == Len(commandPools) + 1
       IN  \E read \in Reads, died \in BOOLEAN,
              poolResult \in VkResults, allocResult \in VkResults :
             LET found == FindInHashTable(hashTable, key, read)
                 allocated ==
                     AllocateCommandBuffers(
                         Append(commandPools, NewCommandPool(key)),
                         commandBuffers, new, Uint32(2), allocResult)
             IN  IF died /\ Chain(hashTable, key) # <<>>
                 THEN Dies
                 ELSE /\ alive' = alive
                      /\ UNCHANGED <<lockOwner, fences>>
                      /\ failures' = failures +
                            (IF found # 0 THEN 0
                             ELSE IF poolResult # "VK_SUCCESS" THEN 1
                             ELSE Errors(<<allocResult>>))
                      /\ failures' <= MaxFailures
                      /\ IF found # 0
                         THEN /\ threads' = [threads EXCEPT ![t] =
                                    [@ EXCEPT !.pc = "get",
                                              !.commandPool = found]]
                              /\ cmdbufs' = [cmdbufs EXCEPT ![t][c] =
                                    [@ EXCEPT !.pool = found,
                                              !.fetched = "found"]]
                              /\ UNCHANGED <<hashTable, commandPools,
                                             commandBuffers>>
                         ELSE IF poolResult # "VK_SUCCESS"
                         THEN /\ threads' = [threads EXCEPT ![t] =
                                    [@ EXCEPT !.pc = "get",
                                              !.commandPool = 0]]
                              /\ cmdbufs' = [cmdbufs EXCEPT ![t][c] =
                                    [@ EXCEPT !.fetched = "nopool"]]
                              /\ UNCHANGED <<hashTable, commandPools,
                                             commandBuffers>>
                         ELSE /\ commandPools' = allocated.pools
                              /\ commandBuffers' = allocated.buffers
                              /\ hashTable' =
                                    InsertIntoHashTable(hashTable, key, new)
                              /\ threads' = [threads EXCEPT ![t] =
                                    [@ EXCEPT !.pc = "get",
                                              !.commandPool = new]]
                              /\ cmdbufs' = [cmdbufs EXCEPT ![t][c] =
                                    [@ EXCEPT !.pool = new,
                                              !.fetched = allocResult]]
    /\ UNCHANGED deviceVars

\* What a read of inactiveCommandBuffers outside the slots written may
\* deliver: the address of some VULKAN_CommandBufferData, or of none.
GarbagePointers == (1..Len(commandBuffers)) \cup {Wild}

\* commandBuffer = inactiveCommandBuffers[inactiveCommandBufferCount - 1]
\* with the index computed in uint32_t: the slot's content when the slot
\* has been written, 0 when the read is outside the slots written.
SlotRead(pool) ==
    LET index == Sub32(pool.inactiveCommandBufferCount, Uint32(1))
    IN  IF index.hi = 0 /\ index.lo < Len(pool.inactiveCommandBuffers)
        THEN pool.inactiveCommandBuffers[index.lo + 1]
        ELSE 0

\* The rest of VULKAN_INTERNAL_GetInactiveCommandBufferFromPool: the pool is
\* read without a check for NULL; a pool with no inactive buffer is grown by
\* its capacity; the last inactive buffer is taken and the count lowered.
GetInactiveCommandBufferFromPool(t) ==
    /\ alive
    /\ threads[t].pc = "get"
    /\ LET p == threads[t].commandPool
           c == threads[t].cmdbuf
       IN  IF p = 0
           THEN \/ Dies
                \/ /\ threads' = [threads EXCEPT ![t] =
                         [@ EXCEPT !.pc = "unlock",
                                   !.commandBufferData = Wild]]
                   /\ cmdbufs' = [cmdbufs EXCEPT ![t][c] =
                         [@ EXCEPT !.popped = Wild,
                                   !.ops = Append(@, "pop")]]
                   /\ UNCHANGED <<lockOwner, hashTable, commandPools,
                                  commandBuffers, fences, failures, alive>>
           ELSE \E growResult \in VkResults :
                  LET empty == commandPools[p].inactiveCommandBufferCount
                                   = Uint32(0)
                      grown ==
                          IF empty
                          THEN AllocateCommandBuffers(
                                   commandPools, commandBuffers, p,
                                   commandPools[p]
                                       .inactiveCommandBufferCapacity,
                                   growResult)
                          ELSE [pools |-> commandPools,
                                buffers |-> commandBuffers]
                      slot == SlotRead(grown.pools[p])
                      taken(b) ==
                          /\ commandPools' = [grown.pools EXCEPT
                                ![p].inactiveCommandBufferCount =
                                    Sub32(@, Uint32(1))]
                          /\ commandBuffers' = grown.buffers
                          /\ threads' = [threads EXCEPT ![t] =
                                [@ EXCEPT !.pc = "unlock",
                                          !.commandBufferData = b]]
                          /\ cmdbufs' = [cmdbufs EXCEPT ![t][c] =
                                [@ EXCEPT
                                    !.countAtEntry = commandPools[p]
                                        .inactiveCommandBufferCount,
                                    !.capacityAtEntry = commandPools[p]
                                        .inactiveCommandBufferCapacity,
                                    !.grew = IF empty THEN growResult
                                             ELSE "none",
                                    !.popped = b,
                                    !.ops = Append(@, "pop")]]
                          /\ failures' = failures +
                                (IF empty THEN Errors(<<growResult>>) ELSE 0)
                          /\ failures' <= MaxFailures
                          /\ UNCHANGED <<lockOwner, hashTable, fences,
                                         alive>>
                  IN  IF slot # 0
                      THEN taken(slot)
                      ELSE \/ Dies
                           \/ \E b \in GarbagePointers : taken(b)
    /\ UNCHANGED deviceVars

\* UnlockMutex with the mutex kept, as if it were released at the end of
\* the call only.
UnlockMutex_KeepsLock(t) ==
    /\ alive
    /\ threads[t].pc = "unlock"
    /\ threads' = [threads EXCEPT ![t].pc = "reset"]
    /\ UNCHANGED <<lockOwner, hashTable, commandPools, commandBuffers,
                   cmdbufs, fences, failures, alive>>
    /\ UNCHANGED deviceVars

\* SDL_UnlockMutex(deviceData->acquireCommandBufferLock);
UnlockMutex(t) ==
    /\ alive
    /\ threads[t].pc = "unlock"
    /\ lockOwner' = 0
    /\ threads' = [threads EXCEPT ![t].pc = "reset"]
    /\ UNCHANGED <<hashTable, commandPools, commandBuffers, cmdbufs,
                   fences, failures, alive>>
    /\ UNCHANGED deviceVars

\* ResetCommandBuffer with the buffer put back on its pool's free list when
\* vkResetCommandBuffer fails.
ResetCommandBuffer_PutsBack(t) ==
    /\ alive
    /\ threads[t].pc = "reset"
    /\ LET b == threads[t].commandBufferData
           p == threads[t].commandPool
           cleared == IF b = Wild THEN commandBuffers
                      ELSE [commandBuffers EXCEPT ![b].submitted = 0]
       IN  \/ b = Wild /\ Dies
           \/ /\ commandBuffers' =
                    IF b = Wild THEN cleared
                    ELSE [cleared EXCEPT ![b].state = "initial"]
              /\ threads' = [threads EXCEPT ![t].pc = "begin"]
              /\ cmdbufs' = [cmdbufs EXCEPT ![t][threads[t].cmdbuf].ops =
                                Append(@, "reset")]
              /\ UNCHANGED <<lockOwner, hashTable, commandPools, fences,
                             failures, alive>>
           \/ /\ commandBuffers' = cleared
              /\ ReturnToThread(t, -1, "failed")
              /\ failures < MaxFailures
              /\ failures' = failures + 1
              /\ commandPools' =
                    IF b = Wild \/ p = 0 THEN commandPools
                    ELSE [commandPools EXCEPT ![p] = AppendBuffers(@, <<b>>)]
              /\ UNCHANGED <<lockOwner, hashTable, fences, alive>>
    /\ UNCHANGED deviceVars

\* commandBufferData->submitted = 0; vkResetCommandBuffer(...); on an error
\* VULKAN_SET_ERROR returns -1.
ResetCommandBuffer(t) ==
    /\ alive
    /\ threads[t].pc = "reset"
    /\ LET b == threads[t].commandBufferData
           c == threads[t].cmdbuf
           cleared == IF b = Wild THEN commandBuffers
                      ELSE [commandBuffers EXCEPT ![b].submitted = 0]
       IN  \/ b = Wild /\ Dies
           \/ /\ commandBuffers' =
                    IF b = Wild THEN cleared
                    ELSE [cleared EXCEPT ![b].state = "initial"]
              /\ threads' = [threads EXCEPT ![t].pc = "begin"]
              /\ cmdbufs' = [cmdbufs EXCEPT ![t][c].ops = Append(@, "reset")]
              /\ UNCHANGED <<lockOwner, hashTable, commandPools, fences,
                             failures, alive>>
           \/ /\ commandBuffers' = cleared
              /\ ReturnToThread(t, -1, "failed")
              /\ failures < MaxFailures
              /\ failures' = failures + 1
              /\ UNCHANGED <<lockOwner, hashTable, commandPools, fences,
                             alive>>
    /\ UNCHANGED deviceVars

\* vkBeginCommandBuffer(...); on an error VULKAN_SET_ERROR returns -1;
\* otherwise cmdbuf->driverdata = commandBufferData; return 0;
BeginCommandBuffer(t) ==
    /\ alive
    /\ threads[t].pc = "begin"
    /\ LET b == threads[t].commandBufferData
           c == threads[t].cmdbuf
       IN  \/ /\ commandBuffers' =
                    IF b = Wild THEN commandBuffers
                    ELSE [commandBuffers EXCEPT ![b].state = "recording"]
              /\ threads' = [threads EXCEPT ![t] = IdleThread]
              /\ cmdbufs' = [cmdbufs EXCEPT ![t][c] =
                    [@ EXCEPT !.ops = @ \o <<"begin", "bind">>,
                              !.driverdata = b,
                              !.ret = 0,
                              !.status = "recording"]]
              /\ UNCHANGED failures
           \/ /\ ReturnToThread(t, -1, "failed")
              /\ failures < MaxFailures
              /\ failures' = failures + 1
              /\ UNCHANGED commandBuffers
    /\ UNCHANGED <<lockOwner, hashTable, commandPools, fences, alive>>
    /\ UNCHANGED deviceVars


\* The command buffers the application may pass to the driver: those a
\* VULKAN_GpuCreateCommandBuffer call returned 0 for, while their thread is
\* in no call.
InHand(t, c) ==
    /\ alive
    /\ cmdbufs[t][c].status = "recording"
    /\ threads[t].pc = "idle"

\* A command buffer the application has given to a submit or an abandon
\* call: what its acquiring call did is no longer recorded.
GivenBack(cmdbuf, status, f) ==
    [NewCmdbuf EXCEPT !.driverdata = cmdbuf.driverdata,
                      !.pool = cmdbuf.pool,
                      !.ret = 0, !.status = status, !.fence = f]

\* VULKAN_GpuSubmitCommandBuffer(cmdbuf, fence) { return 0; }, called for a
\* command buffer with no pass open; f = 0: no fence.
SubmitCommandBuffer(t, c, f) ==
    /\ InHand(t, c)
    /\ cmdbufs[t][c].currently_encoding = "none"
    /\ cmdbufs' = [cmdbufs EXCEPT ![t][c] = GivenBack(@, "submitted", f)]
    /\ fences' = IF f = 0 THEN fences
                 ELSE [fences EXCEPT ![f].submitted = TRUE]
    /\ UNCHANGED <<threads, lockOwner, hashTable, commandPools,
                   commandBuffers, failures, alive>>
    /\ UNCHANGED deviceVars

\* VULKAN_GpuSubmitCommandBuffer(cmdbuf, fence) { return 0; }, called again
\* for a command buffer that was submitted and not acquired since.  The
\* function reads and writes nothing: submitted of the VULKAN_CommandBufferData
\* stays as VULKAN_GpuCreateCommandBuffer left it, and the call returns 0.
SubmitCommandBufferAgain(t, c, f) ==
    /\ alive
    /\ threads[t].pc = "idle"
    /\ cmdbufs[t][c].status = "submitted"
    /\ cmdbufs' = [cmdbufs EXCEPT ![t][c] =
                      [@ EXCEPT !.call = "Submit", !.ret = 0, !.fence = f]]
    /\ fences' = IF f = 0 THEN fences
                 ELSE [fences EXCEPT ![f].submitted = TRUE]
    /\ UNCHANGED <<threads, lockOwner, hashTable, commandPools,
                   commandBuffers, failures, alive>>
    /\ UNCHANGED deviceVars

\* AbandonCommandBuffer with the pool of the calling thread taken out of
\* the map.
AbandonCommandBuffer_DropsPool(t, c) ==
    /\ InHand(t, c)
    /\ cmdbufs' = [cmdbufs EXCEPT ![t][c] = GivenBack(@, "abandoned", 0)]
    /\ hashTable' = SelectSeq(hashTable,
                              LAMBDA item : item.key # ThreadID(t))
    /\ UNCHANGED <<threads, lockOwner, commandPools, commandBuffers,
                   fences, failures, alive>>
    /\ UNCHANGED deviceVars

\* VULKAN_GpuAbandonCommandBuffer(buffer) {}
AbandonCommandBuffer(t, c) ==
    /\ InHand(t, c)
    /\ cmdbufs' = [cmdbufs EXCEPT ![t][c] = GivenBack(@, "abandoned", 0)]
    /\ UNCHANGED <<threads, lockOwner, hashTable, commandPools,
                   commandBuffers, fences, failures, alive>>
    /\ UNCHANGED deviceVars

\* A fence call: the fence records the call and what the driver returned.
FenceCall(f, name, value) ==
    /\ alive
    /\ fences[f].last # "destroy"
    /\ fences' = [fences EXCEPT ![f] =
                     [@ EXCEPT !.last = name, !.ret = value]]
    /\ UNCHANGED <<threads, lockOwner, hashTable, commandPools,
                   commandBuffers, cmdbufs, failures, alive>>
    /\ UNCHANGED deviceVars

\* VULKAN_GpuCreateFence(fence) { return 0; }
CreateFence ==
    /\ alive
    /\ Len(fences) < MaxFences
    /\ fences' = Append(fences,
                    [last |-> "create", ret |-> 0, submitted |-> FALSE])
    /\ UNCHANGED <<threads, lockOwner, hashTable, commandPools,
                   commandBuffers, cmdbufs, failures, alive>>
    /\ UNCHANGED deviceVars

\* VULKAN_GpuDestroyFence(fence) {}
DestroyFence(f) == FenceCall(f, "destroy", 0)

\* QueryFence that reports the fence as not signaled.
QueryFence_Unsignaled(f) == FenceCall(f, "query", 0)

\* VULKAN_GpuQueryFence(fence) { return 1; }
QueryFence(f) == FenceCall(f, "query", 1)

\* VULKAN_GpuResetFence(fence) { return 0; }.  The record of the calls made
\* with the fence notes that no submission has been attached to it since.
ResetFence(f) ==
    /\ alive
    /\ fences[f].last # "destroy"
    /\ fences' = [fences EXCEPT ![f] =
                     [@ EXCEPT !.last = "reset", !.ret = 0,
                               !.submitted = FALSE]]
    /\ UNCHANGED <<threads, lockOwner, hashTable, commandPools,
                   commandBuffers, cmdbufs, failures, alive>>
    /\ UNCHANGED deviceVars

\* VULKAN_GpuWaitFence(fence) { return 0; }
WaitFence(f) == FenceCall(f, "wait", 0)

\* StartPass with the pass begun whether or not a pass is open, as the
\* driver's functions alone would have it.
StartPass_Nested(t, c, kind) ==
    /\ InHand(t, c)
    /\ cmdbufs' = [cmdbufs EXCEPT ![t][c] =
                      [@ EXCEPT !.currently_encoding = kind,
                                !.call = "Start_" \o kind,
                                !.ret = 0]]
    /\ UNCHANGED <<threads, lockOwner, hashTable, commandPools,
                   commandBuffers, fences, failures, alive>>
    /\ UNCHANGED deviceVars

\* The application begins a pass of `kind` on command buffer c.  A command
\* buffer that has a pass open rejects it and keeps its state; otherwise
\* the driver's VULKAN_GpuStartRenderPass or VULKAN_GpuStartBlitPass is
\* called, which returns 0.
StartPass(t, c, kind) ==
    /\ InHand(t, c)
    /\ IF cmdbufs[t][c].currently_encoding # "none"
       THEN cmdbufs' = [cmdbufs EXCEPT ![t][c] =
                           [@ EXCEPT !.call = "Start_" \o kind,
                                     !.ret = -1]]
       ELSE cmdbufs' = [cmdbufs EXCEPT ![t][c] =
                           [@ EXCEPT !.currently_encoding = kind,
                                     !.call = "Start_" \o kind,
                                     !.ret = 0]]
    /\ UNCHANGED <<threads, lockOwner, hashTable, commandPools,
                   commandBuffers, fences, failures, alive>>
    /\ UNCHANGED deviceVars

StartRenderPass(t, c) == StartPass(t, c, "render")
StartBlitPass(t, c) == StartPass(t, c, "blit")

\* The application ends the pass of `kind` that is open on command buffer
\* c: VULKAN_GpuEndRenderPass or VULKAN_GpuEndBlitPass, which return 0.
EndPass(t, c, kind) ==
    /\ InHand(t, c)
    /\ cmdbufs[t][c].currently_encoding = kind
    /\ cmdbufs' = [cmdbufs EXCEPT ![t][c] =
                      [@ EXCEPT !.currently_encoding = "none",
                                !.call = "End_" \o kind,
                                !.ret = 0]]
    /\ UNCHANGED <<threads, lockOwner, hashTable, commandPools,
                   commandBuffers, fences, failures, alive>>
    /\ UNCHANGED deviceVars

EndRenderPass(t, c) == EndPass(t, c, "render")
EndBlitPass(t, c) == EndPass(t, c, "blit")

\* The setters and draws of a render pass, VULKAN_GpuSetRenderPassPipeline
\* to VULKAN_GpuDrawInstancedIndexed, and the operations of a blit pass,
\* VULKAN_GpuCopyBetweenTextures to VULKAN_GpuCopyFromTextureToBuffer.
RenderPassOps ==
    {"SetRenderPassPipeline", "SetRenderPassViewport", "Draw", "DrawIndexed"}
BlitPassOps ==
    {"CopyBetweenTextures", "FillBuffer", "GenerateMipmaps",
     "CopyFromBufferToTexture"}

\* The kind of pass an operation belongs to.
PassKind(name) == IF name \in RenderPassOps THEN "render" ELSE "blit"

\* PassOp with the driver's function called whatever pass is open, as the
\* driver's functions alone would have it.
PassOp_AnyState(t, c, name) ==
    /\ InHand(t, c)
    /\ cmdbufs' = [cmdbufs EXCEPT ![t][c] =
                      [@ EXCEPT !.call = name, !.ret = 0]]
    /\ UNCHANGED <<threads, lockOwner, hashTable, commandPools,
                   commandBuffers, fences, failures, alive>>
    /\ UNCHANGED deviceVars

\* The application issues operation `name` on command buffer c.  The
\* operation goes to the driver's function, which returns 0, when the pass
\* open on the command buffer is of the operation's kind; it is an error
\* when no pass is open or the open pass is of the other kind.
PassOp(t, c, name) ==
    /\ InHand(t, c)
    /\ cmdbufs' = [cmdbufs EXCEPT ![t][c] =
                      [@ EXCEPT !.call = name,
                                !.ret =
                                    IF cmdbufs[t][c].currently_encoding
                                            = PassKind(name)
                                    THEN 0 ELSE -1]]
    /\ UNCHANGED <<threads, lockOwner, hashTable, commandPools,
                   commandBuffers, fences, failures, alive>>
    /\ UNCHANGED deviceVars

\* VULKAN_GpuDestroyDevice(device) { /* no-op */ }, called at shutdown when
\* no thread is inside a call: it returns and has released nothing.
DestroyDevice ==
    /\ alive
    /\ pc = "done"
    /\ result = 0
    /\ \A t \in Threads : threads[t].pc = "idle"
    /\ pc' = "destroyed"
    /\ UNCHANGED <<adapters, run, first, deviceData, locals,
                   countQueryResult, listQueryResult, determineRet, result,
                   device, live>>
    /\ UNCHANGED <<poolVars, instanceCall, app>>

\* The device has been created and nothing has used it.
InitPool == DeviceCreated /\ NothingAcquired

\* Threads acquire command buffers.
NextPool ==
    \/ \E t \in Threads : EnterCreateCommandBuffer(t, MaxAcquires)
    \/ \E t \in Threads : LockMutex(t)
    \/ \E t \in Threads : FetchCommandPool(t)
    \/ \E t \in Threads : GetInactiveCommandBufferFromPool(t)
    \/ \E t \in Threads : UnlockMutex(t)
    \/ \E t \in Threads : ResetCommandBuffer(t)
    \/ \E t \in Threads : BeginCommandBuffer(t)

SpecPool == InitPool /\ [][NextPool]_vars

\* One thread acquires command buffers, submits them with and without a
\* fence, abandons them, and uses the fences.
NextUse ==
    \/ EnterCreateCommandBuffer(1, MaxUseBuffers)
    \/ LockMutex(1)
    \/ FetchCommandPool(1)
    \/ GetInactiveCommandBufferFromPool(1)
    \/ UnlockMutex(1)
    \/ ResetCommandBuffer(1)
    \/ BeginCommandBuffer(1)
    \/ \E tc \in Cmdbufs, f \in {0} \cup Fences :
            SubmitCommandBuffer(tc[1], tc[2], f)
    \/ \E tc \in Cmdbufs : AbandonCommandBuffer(tc[1], tc[2])
    \/ CreateFence
    \/ \E f \in Fences : DestroyFence(f)
    \/ \E f \in Fences : QueryFence(f)
    \/ \E f \in Fences : ResetFence(f)
    \/ \E f \in Fences : WaitFence(f)

SpecUse == InitPool /\ [][NextUse]_vars

\* One thread acquires command buffers, records passes on them, and submits
\* and abandons them.
NextPass ==
    \/ EnterCreateCommandBuffer(1, MaxPassBuffers)
    \/ LockMutex(1)
    \/ FetchCommandPool(1)
    \/ GetInactiveCommandBufferFromPool(1)
    \/ UnlockMutex(1)
    \/ ResetCommandBuffer(1)
    \/ BeginCommandBuffer(1)
    \/ \E tc \in Cmdbufs : StartRenderPass(tc[1], tc[2])
    \/ \E tc \in Cmdbufs : EndRenderPass(tc[1], tc[2])
    \/ \E tc \in Cmdbufs : StartBlitPass(tc[1], tc[2])
    \/ \E tc \in Cmdbufs : EndBlitPass(tc[1], tc[2])
    \/ \E tc \in Cmdbufs : SubmitCommandBuffer(tc[1], tc[2], 0)
    \/ \E tc \in Cmdbufs : AbandonCommandBuffer(tc[1], tc[2])

SpecPass == InitPool /\ [][NextPass]_vars

\* One thread acquires command buffers, opens and closes passes on them
\* and issues the operations of both kinds of pass.
NextOps ==
    \/ EnterCreateCommandBuffer(1, MaxOpBuffers)
    \/ LockMutex(1)
    \/ FetchCommandPool(1)
    \/ GetInactiveCommandBufferFromPool(1)
    \/ UnlockMutex(1)
    \/ ResetCommandBuffer(1)
    \/ BeginCommandBuffer(1)
    \/ \E tc \in Cmdbufs : StartRenderPass(tc[1], tc[2])
    \/ \E tc \in Cmdbufs : EndRenderPass(tc[1], tc[2])
    \/ \E tc \in Cmdbufs : StartBlitPass(tc[1], tc[2])
    \/ \E tc \in Cmdbufs : EndBlitPass(tc[1], tc[2])
    \/ \E tc \in Cmdbufs, name \in RenderPassOps \cup BlitPassOps :
            PassOp(tc[1], tc[2], name)
    \/ \E tc \in Cmdbufs : SubmitCommandBuffer(tc[1], tc[2], 0)
    \/ \E tc \in Cmdbufs : SubmitCommandBufferAgain(tc[1], tc[2], 0)
    \/ \E tc \in Cmdbufs : AbandonCommandBuffer(tc[1], tc[2])

SpecOps == InitPool /\ [][NextOps]_vars

\* The device is used as in NextOps until it is destroyed.
NextShutdown ==
    \/ pc = "done" /\ NextOps
    \/ DestroyDevice

SpecShutdown == InitPool /\ [][NextShutdown]_vars

\* The thread goes on for as long as it has a call to make or a step of a
\* call to take.
SpecOpsFair == SpecOps /\ WF_vars(NextOps)

----------------------------------------------------------------------------
(* Vocabulary of the properties *)

\* The list query has delivered physicalDevices and the loop is set up.
Listed == listQueryResult \in {"VK_SUCCESS", "VK_INCOMPLETE"}

\* DeterminePhysicalDevice has returned after running its loop to the end.
SelectionEnded == Listed /\ determineRet # -1

Max(S) == CHOOSE x \in S : \A y \in S : y <= x

PriorityAt(k) == DevicePriority(AdapterAt(locals, k).deviceType)

\* The highest device priority among the first n enumerated adapters.
MaxPriority(n) == IF n = 0 THEN 0 ELSE Max({PriorityAt(k) : k \in 0..(n - 1)})

\* The adapter is judged suitable when it is checked on its own, with no
\* adapter seen before it.
Usable(adapter) ==
    IsDeviceSuitable(ZeroDeviceData, adapter, 0, 0, <<0, 0>>).ret # 0

\* The adapter deviceData is committed to.
Chosen == adapters[deviceData.physicalDevice]

----------------------------------------------------------------------------
(* C1 *)

\* C1: the adapter selection returns is never of a lower device class than
\* another enumerated adapter.  All through the loop the running best rank
\* is the highest class seen so far, usable or not, and an accepted adapter
\* is of exactly that class: an unusable adapter of a higher class raises
\* the rank and discards what was accepted, so selection then fails.
C1_NeverLowerClass ==
    Listed =>
        /\ locals.highestRank = MaxPriority(locals.i)
        /\ locals.suitableIndex # -1 =>
                /\ locals.suitableIndex < locals.i
                /\ PriorityAt(locals.suitableIndex) = locals.highestRank
        /\ (determineRet # -1 /\ determineRet # 0) =>
                \A k \in 0..(locals.physicalDeviceCount - 1) :
                    PriorityAt(k) <= DevicePriority(Chosen.deviceType)

\* [integrated usable, discrete unusable, virtual usable] was enumerated and
\* selection failed.
C1_Witness ==
    /\ SelectionEnded
    /\ locals.physicalDeviceCount = 3
    /\ AdapterAt(locals, 0).deviceType = VK_PHYSICAL_DEVICE_TYPE_INTEGRATED_GPU
    /\ Usable(AdapterAt(locals, 0))
    /\ AdapterAt(locals, 1).deviceType = VK_PHYSICAL_DEVICE_TYPE_DISCRETE_GPU
    /\ ~ Usable(AdapterAt(locals, 1))
    /\ AdapterAt(locals, 2).deviceType = VK_PHYSICAL_DEVICE_TYPE_VIRTUAL_GPU
    /\ Usable(AdapterAt(locals, 2))
    /\ determineRet = 0
    /\ result = -1

----------------------------------------------------------------------------
(* C2 *)

\* Some enumerated adapter of the highest class present is usable.
UsableAtTop ==
    \E k \in 0..(locals.physicalDeviceCount - 1) :
        /\ PriorityAt(k) = MaxPriority(locals.physicalDeviceCount)
        /\ Usable(AdapterAt(locals, k))

\* C2: once the candidates are enumerated, selection returns an adapter
\* exactly when a candidate of the highest class present is usable; what it
\* returns is one enumerated adapter, usable and of that class; when it
\* fails nothing is committed; an empty list makes it fail.
C2_OneOrFail ==
    /\ SelectionEnded =>
        /\ determineRet \in {0, 1}
        /\ determineRet = 1 <=> UsableAtTop
        /\ determineRet = 1 =>
            /\ deviceData.physicalDevice \in 1..locals.physicalDeviceCount
            /\ Usable(Chosen)
            /\ DevicePriority(Chosen.deviceType)
                    = MaxPriority(locals.physicalDeviceCount)
        /\ determineRet = 0 =>
            /\ deviceData.physicalDevice = 0
            /\ result = -1
    /\ (countQueryResult = "VK_SUCCESS" /\ locals.physicalDeviceCount = 0) =>
        /\ determineRet = 0
        /\ result = -1

\* Two adapters of the highest class, the usable one before the unusable
\* one, and selection returned the usable one.
C2_Witness ==
    /\ SelectionEnded
    /\ locals.physicalDeviceCount = 3
    /\ PriorityAt(0) < PriorityAt(1)
    /\ PriorityAt(1) = PriorityAt(2)
    /\ Usable(AdapterAt(locals, 1))
    /\ ~ Usable(AdapterAt(locals, 2))
    /\ determineRet = 1
    /\ deviceData.physicalDevice = 2

----------------------------------------------------------------------------
(* C3 *)

\* Exactly one usable virtual and one usable integrated adapter were
\* enumerated, in either order.
VirtualAndIntegrated ==
    /\ SelectionEnded
    /\ locals.physicalDeviceCount = 2
    /\ Usable(AdapterAt(locals, 0))
    /\ Usable(AdapterAt(locals, 1))
    /\ {AdapterAt(locals, 0).deviceType, AdapterAt(locals, 1).deviceType}
        = {VK_PHYSICAL_DEVICE_TYPE_VIRTUAL_GPU,
           VK_PHYSICAL_DEVICE_TYPE_INTEGRATED_GPU}

\* C3 as stated: given one usable virtual and one usable integrated
\* adapter, selection returns the virtual one.
C3_VirtualPreferred ==
    VirtualAndIntegrated =>
        /\ determineRet = 1
        /\ Chosen.deviceType = VK_PHYSICAL_DEVICE_TYPE_VIRTUAL_GPU

\* C3 amended: the rank orders the classes discrete > integrated > virtual >
\* software > other, and given one usable virtual and one usable integrated
\* adapter, in either order, selection returns the integrated one.
C3_IntegratedPreferred ==
    /\ DevicePriority(VK_PHYSICAL_DEVICE_TYPE_DISCRETE_GPU)
        > DevicePriority(VK_PHYSICAL_DEVICE_TYPE_INTEGRATED_GPU)
    /\ DevicePriority(VK_PHYSICAL_DEVICE_TYPE_INTEGRATED_GPU)
        > DevicePriority(VK_PHYSICAL_DEVICE_TYPE_VIRTUAL_GPU)
    /\ DevicePriority(VK_PHYSICAL_DEVICE_TYPE_VIRTUAL_GPU)
        > DevicePriority(VK_PHYSICAL_DEVICE_TYPE_CPU)
    /\ DevicePriority(VK_PHYSICAL_DEVICE_TYPE_CPU)
        > DevicePriority(VK_PHYSICAL_DEVICE_TYPE_OTHER)
    /\ VirtualAndIntegrated =>
        /\ determineRet = 1
        /\ Chosen.deviceType = VK_PHYSICAL_DEVICE_TYPE_INTEGRATED_GPU

\* The integrated adapter was enumerated first, the virtual one after it,
\* and the integrated one was returned.
C3_Witness ==
    /\ VirtualAndIntegrated
    /\ AdapterAt(locals, 0).deviceType = VK_PHYSICAL_DEVICE_TYPE_INTEGRATED_GPU
    /\ determineRet = 1
    /\ deviceData.physicalDevice = 1

----------------------------------------------------------------------------
(* C4 *)

\* The three conditions of usability, stated on the adapter itself.
HasRequiredExtensions(adapter) == RequiredNames \subseteq adapter.extensions

HasGraphicsPresentFamily(adapter) ==
    \E f \in 1..Len(adapter.queueProps) :
        adapter.queueProps[f].graphics /\ adapter.queueProps[f].present

SwapchainYieldsBoth(adapter) ==
    /\ adapter.swapError = "none"
    /\ adapter.formats >= 1
    /\ adapter.presentModes >= 1

\* C4: an adapter the loop has accepted advertises every required
\* extension, has a queue family that is graphics-capable and can present
\* to the surface, and its swapchain query yielded at least one surface
\* format and at least one present mode.
C4_UsableOnlyIf ==
    (Listed /\ locals.suitableIndex # -1) =>
        /\ HasRequiredExtensions(AdapterAt(locals, locals.suitableIndex))
        /\ HasGraphicsPresentFamily(AdapterAt(locals, locals.suitableIndex))
        /\ SwapchainYieldsBoth(AdapterAt(locals, locals.suitableIndex))

\* An adapter was accepted whose graphics and present family is not the
\* first of its families.
C4_Witness ==
    /\ pc = "Loop"
    /\ locals.suitableIndex = 0
    /\ locals.suitableQueueFamilyIndex = 1
    /\ Len(AdapterAt(locals, 0).queueProps) = 2

----------------------------------------------------------------------------
(* C5 *)

\* The families of the adapter that are graphics-capable and can present,
\* by index from 0.
EligibleFamilies(adapter) ==
    {f \in 0..(Len(adapter.queueProps) - 1) :
        /\ adapter.queueProps[f + 1].graphics
        /\ adapter.queueProps[f + 1].present}

\* The rank of an eligible family: 3 for graphics+compute+transfer, 2 for
\* graphics+compute, 1 for graphics without compute.
FamilyRank(adapter, f) ==
    IF adapter.queueProps[f + 1].compute /\ adapter.queueProps[f + 1].transfer
    THEN 3
    ELSE IF adapter.queueProps[f + 1].compute THEN 2 ELSE 1

\* The eligible family of maximum rank and, at that rank, of lowest index;
\* INT32_MAX when no family is eligible.
BestFamily(adapter) ==
    IF EligibleFamilies(adapter) = {}
    THEN INT32_MAX
    ELSE CHOOSE f \in EligibleFamilies(adapter) :
            \A g \in EligibleFamilies(adapter) :
                \/ FamilyRank(adapter, g) < FamilyRank(adapter, f)
                \/ FamilyRank(adapter, g) = FamilyRank(adapter, f) /\ f <= g

\* The adapter of the iteration that has just run.
LastChecked == AdapterAt(locals, locals.i - 1)

\* C5: the queue family chosen for an adapter is graphics-capable and
\* present-capable, of maximum rank among such families (3 for
\* graphics+compute+transfer, 2 for graphics+compute, 1 for graphics only),
\* and the lowest index at that rank: for every table enumerated, for the
\* adapter an iteration has scanned, and for the family committed.
C5_BestQueueFamily ==
    /\ \A k \in 1..Len(adapters) :
            ChooseQueueFamily(adapters[k]) = BestFamily(adapters[k])
    /\ (/\ Listed
        /\ locals.i >= 1
        /\ locals.physicalDeviceExtensions[locals.i].written
        /\ HasRequiredExtensions(LastChecked)) =>
            locals.queueFamilyIndex = BestFamily(LastChecked)
    /\ (SelectionEnded /\ determineRet = 1) =>
            /\ deviceData.queueFamilyIndex = BestFamily(Chosen)
            /\ deviceData.queueFamilyIndex \in EligibleFamilies(Chosen)

\* An adapter with two eligible families of the same rank was selected with
\* the first of them.
C5_Witness ==
    /\ SelectionEnded
    /\ determineRet = 1
    /\ EligibleFamilies(Chosen) = {0, 1}
    /\ FamilyRank(Chosen, 0) = FamilyRank(Chosen, 1)
    /\ deviceData.queueFamilyIndex = 0

----------------------------------------------------------------------------
(* C6 *)

\* C6: two runs of selection over the same candidate list end with the same
\* outcome: the same return value, the same adapter and the same queue
\* family.
C6_Deterministic ==
    (/\ run = 2
     /\ first.listed
     /\ SelectionOutcome.listed
     /\ first.physicalDevices = locals.physicalDevices) =>
        SelectionOutcome = first

\* The second run over two adapters has selected the second adapter with
\* its second queue family, as the first run did.
C6_Witness ==
    /\ run = 2
    /\ first.listed
    /\ SelectionOutcome.listed
    /\ first.physicalDevices = <<1, 2>>
    /\ locals.physicalDevices = <<1, 2>>
    /\ determineRet = 1
    /\ deviceData.physicalDevice = 2
    /\ deviceData.queueFamilyIndex = 1

----------------------------------------------------------------------------
(* C7 *)

\* C7 as stated: when the count query or the list query of the enumeration
\* returns an error, selection reports failure (returns 0) and device
\* creation fails with no adapter committed.
C7_EnumerationErrorFails ==
    ((countQueryResult = "VK_ERROR" \/ listQueryResult = "VK_ERROR")
        /\ pc \in {"CreateLogicalDevice", "CreatePoolTable", "done",
                   "crashed"}) =>
        /\ determineRet = 0
        /\ pc = "done"
        /\ result = -1
        /\ deviceData.physicalDevice = 0
        /\ device.slots = {}

----------------------------------------------------------------------------
(* C8 *)

\* C8: when the list query returns VK_INCOMPLETE, selection goes on as
\* after VK_SUCCESS: the loop runs over exactly the adapters the query
\* returned, fewer than the backend has, and selection returns only after
\* the last of them, with the result the returned adapters give.
C8_IncompleteIsSuccess ==
    listQueryResult = "VK_INCOMPLETE" =>
        /\ locals.physicalDeviceCount >= 1
        /\ locals.physicalDeviceCount < Len(adapters)
        /\ locals.physicalDevices
                = [k \in 1..locals.physicalDeviceCount |-> k]
        /\ pc \notin {"EnumerateCount", "EnumerateList"}
        /\ determineRet # -1 =>
                /\ locals.i = locals.physicalDeviceCount
                /\ determineRet = 1 <=> UsableAtTop

\* Two of three adapters were returned with VK_INCOMPLETE, the second is
\* the one selected, and device creation succeeded.
C8_Witness ==
    /\ listQueryResult = "VK_INCOMPLETE"
    /\ Len(adapters) = 3
    /\ locals.physicalDeviceCount = 2
    /\ determineRet = 1
    /\ deviceData.physicalDevice = 2
    /\ result = 0

----------------------------------------------------------------------------
(* C9 *)

\* C9 as stated: when device creation succeeds an adapter is chosen and it
\* advertises the four required extensions; when the best-ranked adapter
\* enumerated lacks one of them, device creation fails.
C9_RequiredExtensions ==
    /\ result = 0 =>
        /\ deviceData.physicalDevice # 0
        /\ HasRequiredExtensions(Chosen)
    /\ (/\ pc = "done"
        /\ countQueryResult = "VK_SUCCESS"
        /\ Len(locals.physicalDevices) = locals.physicalDeviceCount
        /\ \E k \in 0..(locals.physicalDeviceCount - 1) :
            /\ PriorityAt(k) = MaxPriority(locals.physicalDeviceCount)
            /\ \A j \in 0..(locals.physicalDeviceCount - 1) :
                    j # k => PriorityAt(j) < PriorityAt(k)
            /\ ~ HasRequiredExtensions(AdapterAt(locals, k))) =>
        result = -1

----------------------------------------------------------------------------
(* C10 *)

\* The adapter with the optional extensions replaced by the given ones.
WithOptional(adapter, names) ==
    [adapter EXCEPT !.extensions = (@ \ OptionalNames) \cup names]

\* What selection returns and commits when the loop is run from `loc` to
\* the end over the enumerated adapters without their optional extensions.
RECURSIVE SelectWithoutOptional(_)
SelectWithoutOptional(loc) ==
    IF loc.i >= loc.physicalDeviceCount
    THEN IF loc.suitableIndex # -1
         THEN [ret |-> 1,
               physicalDevice |-> loc.physicalDevices[loc.suitableIndex + 1],
               queueFamilyIndex |-> loc.suitableQueueFamilyIndex]
         ELSE [ret |-> 0, physicalDevice |-> 0, queueFamilyIndex |-> 0]
    ELSE SelectWithoutOptional(
            LoopBodyOn(ZeroDeviceData, loc,
                       WithOptional(AdapterAt(loc, loc.i), {}), <<0, 0>>))

\* The flags of the optional extensions are set exactly for the names the
\* adapter advertises.
OptionalRecorded(supports, adapter) ==
    \A ext \in OptionalExtensions :
        /\ supports[ext] \in {0, 1}
        /\ supports[ext] = 1 <=> VkName(ext) \in adapter.extensions

\* C10: the optional extensions an adapter advertises change neither
\* whether it is usable nor what selection returns (the same adapter, the
\* same queue family, or failure, as over the list without any optional
\* extension), and each is recorded as a flag that is set exactly when the
\* adapter advertises it.
C10_OptionalNeverDecides ==
    /\ (Listed /\ locals.i >= 1) =>
            \A names \in SUBSET OptionalNames :
                Usable(WithOptional(LastChecked, names)) <=> Usable(LastChecked)
    /\ SelectionEnded =>
            SelectWithoutOptional(LoopStart(NoLocals,
                                            locals.physicalDeviceCount))
                = [ret |-> determineRet,
                   physicalDevice |-> deviceData.physicalDevice,
                   queueFamilyIndex |-> deviceData.queueFamilyIndex]
    /\ Listed =>
            \A k \in 1..locals.physicalDeviceCount :
                locals.physicalDeviceExtensions[k].written =>
                    OptionalRecorded(
                        locals.physicalDeviceExtensions[k].extensions,
                        AdapterAt(locals, k - 1))
    /\ (SelectionEnded /\ determineRet = 1) =>
            OptionalRecorded(deviceData.supportedExtensions, Chosen)

\* Of two usable adapters the first advertises every optional extension and
\* the second none; the second is selected and its flags are clear, while
\* the flags written for the first are set.
C10_Witness ==
    /\ SelectionEnded
    /\ locals.physicalDeviceCount = 2
    /\ OptionalNames \subseteq AdapterAt(locals, 0).extensions
    /\ AdapterAt(locals, 1).extensions \cap OptionalNames = {}
    /\ determineRet = 1
    /\ deviceData.physicalDevice = 2
    /\ \A ext \in OptionalExtensions :
            /\ deviceData.supportedExtensions[ext] = 0
            /\ locals.physicalDeviceExtensions[1].extensions[ext] = 1

----------------------------------------------------------------------------
(* Vocabulary of the command pool properties *)

\* The command buffer object <<t, c>>.
Cmdbuf(tc) == cmdbufs[tc[1]][tc[2]]

\* The command buffers that are outstanding: a call returned 0 for them and
\* they have been neither submitted nor abandoned.
Outstanding == {tc \in Cmdbufs : Cmdbuf(tc).status = "recording"}

\* The free list of pool p, and the numbers the pool records.
FreeCount(p) == commandPools[p].inactiveCommandBufferCount
Capacity(p) == commandPools[p].inactiveCommandBufferCapacity
Pools == 1..Len(commandPools)

\* The pool the hash table holds for thread t's ID, 0 when it holds none.
PoolOf(t) ==
    LET items == {i \in 1..Len(hashTable) : hashTable[i].key = ThreadID(t)}
    IN  IF items = {} THEN 0 ELSE hashTable[CHOOSE i \in items : TRUE].value

\* C11: a command buffer handed out by an acquire is none of the other
\* outstanding command buffers: no two outstanding command buffer objects
\* are bound to the same buffer of a pool.
C11_OutstandingDistinct ==
    \A x, y \in Outstanding :
        (x # y /\ Cmdbuf(x).driverdata # Wild)
            => Cmdbuf(x).driverdata # Cmdbuf(y).driverdata

\* C11, in the runs where every backend call has succeeded.
C11_DistinctWithoutErrors == failures = 0 => C11_OutstandingDistinct

\* Thread t takes the step of FetchCommandPool that creates its pool.
CreatesPool(t) ==
    /\ threads[t].pc = "fetch"
    /\ threads'[t].pc = "get"
    /\ Len(commandPools') > Len(commandPools)

\* Thread t takes the step that pops a buffer from the pool it fetched.
Pops(t) ==
    /\ threads[t].pc = "get"
    /\ threads'[t].pc = "unlock"
    /\ threads[t].commandPool # 0

\* What C12 says of one step of thread t.
DoublingStep(t) ==
    LET p == threads'[t].commandPool
        before == commandPools[p]
        after == commandPools'[p]
    IN  /\ CreatesPool(t) =>
            after.inactiveCommandBufferCapacity = Uint32(2)
        /\ Pops(t) =>
            IF before.inactiveCommandBufferCount = Uint32(0)
            THEN /\ after.inactiveCommandBufferCapacity =
                        Add32(before.inactiveCommandBufferCapacity,
                              before.inactiveCommandBufferCapacity)
                 /\ Len(commandBuffers') = Len(commandBuffers)
                        + Value32(before.inactiveCommandBufferCapacity)
                 /\ after.inactiveCommandBufferCount =
                        Sub32(before.inactiveCommandBufferCapacity, Uint32(1))
                 /\ threads'[t].commandBufferData > Len(commandBuffers)
            ELSE /\ after.inactiveCommandBufferCapacity =
                        before.inactiveCommandBufferCapacity
                 /\ after.inactiveCommandBufferCount =
                        Sub32(before.inactiveCommandBufferCount, Uint32(1))

\* C12: a pool is created with capacity 2; an acquire that finds no free
\* buffer raises the capacity C by C, appends C new buffers and hands out
\* one of them, leaving C - 1 free; any other acquire leaves the capacity
\* and takes one free buffer.  So the third acquire of a pool's thread
\* raises the capacity from 2 to 4 and leaves 1 free.
C12_GrowsByCapacity == [][\A t \in Threads : DoublingStep(t)]_vars

\* C12, for the steps up to which every backend call has succeeded.
C12_GrowsWithoutErrors ==
    [][failures' = 0 => \A t \in Threads : DoublingStep(t)]_vars

\* A pool of capacity 4 with 1 free buffer and three outstanding buffers,
\* with no backend error.
C12_ThirdAcquire ==
    /\ failures = 0
    /\ \E p \in Pools :
        /\ Capacity(p) = Uint32(4)
        /\ FreeCount(p) = Uint32(1)
        /\ Cardinality({tc \in Outstanding : Cmdbuf(tc).pool = p}) = 3

\* Thread t takes the pop step and the growth of its pool fails in it.
GrowthFails(t) == Pops(t) /\ failures' > failures

\* C13: a growth whose batch the backend fails to allocate leaves the
\* pool's recorded capacity as it was.
C13_FailedGrowthKeepsCapacity ==
    [][\A t \in Threads :
        GrowthFails(t) =>
            commandPools'[threads[t].commandPool]
                    .inactiveCommandBufferCapacity
                = Capacity(threads[t].commandPool)]_vars

\* The acquire call of command buffer tc has had vkCreateCommandPool or
\* vkAllocateCommandBuffers fail.
AllocationFailed(tc) ==
    \/ Cmdbuf(tc).fetched \in {"nopool", "VK_ERROR"}
    \/ Cmdbuf(tc).grew = "VK_ERROR"

\* C14: an acquire in which the creation of the pool or the allocation of
\* buffers fails reads no slot of a free list, binds no buffer and does not
\* return 0.
C14_AllocationFailureReported ==
    \A tc \in Cmdbufs :
        AllocationFailed(tc) =>
            /\ Cmdbuf(tc).ops = <<>>
            /\ Cmdbuf(tc).driverdata = 0
            /\ Cmdbuf(tc).ret # 0

\* Thread t's call returns -1 from the reset or the begin of the buffer.
FailsAfterPop(t) ==
    /\ threads[t].pc \in {"reset", "begin"}
    /\ threads'[t].pc = "idle"
    /\ cmdbufs'[t][threads[t].cmdbuf].status = "failed"

\* Thread t takes a step of its call after the pop.
StepsAfterPop(t) ==
    /\ threads[t].pc \in {"unlock", "reset", "begin"}
    /\ threads'[t] # threads[t]

\* C15 as stated: a call in which the reset or the begin fails returns an
\* error, binds no buffer and puts no buffer back, the free count being
\* one lower than it was before the call.
C15_OneLowerThanBefore ==
    [][\A t \in Threads :
        FailsAfterPop(t) =>
            LET cmdbuf == cmdbufs'[t][threads[t].cmdbuf]
            IN  /\ cmdbuf.ret = -1
                /\ cmdbuf.driverdata = 0
                /\ commandPools' = commandPools
                /\ cmdbuf.pool # 0 =>
                        FreeCount(cmdbuf.pool)
                            = Sub32(cmdbuf.countAtEntry, Uint32(1))]_vars

\* C15, amended: a call in which the reset or the begin fails returns an
\* error and binds no buffer, and no step of a call after its pop changes
\* a pool: the free list stays as the pop left it.
C15_FailureNotPutBack ==
    [][\A t \in Threads :
        /\ StepsAfterPop(t) => commandPools' = commandPools
        /\ FailsAfterPop(t) =>
            /\ cmdbufs'[t][threads[t].cmdbuf].ret = -1
            /\ cmdbufs'[t][threads[t].cmdbuf].driverdata = 0]_vars

\* A call that grew its pool from 2 to 4 and then failed in reset or begin:
\* 1 buffer is free, where none was before the call.
C15_Witness ==
    \E tc \in Cmdbufs :
        /\ Cmdbuf(tc).status = "failed"
        /\ Cmdbuf(tc).ret = -1
        /\ Cmdbuf(tc).driverdata = 0
        /\ Cmdbuf(tc).grew = "VK_SUCCESS"
        /\ Cmdbuf(tc).countAtEntry = Uint32(0)
        /\ FreeCount(Cmdbuf(tc).pool) = Uint32(1)

\* Thread t holds acquireCommandBufferLock.
Holds(t) == lockOwner = t

\* A step that submits or abandons a command buffer or is a fence call.
SubmissionOrFenceStep ==
    \/ fences' # fences
    \/ \E tc \in Cmdbufs :
        /\ Cmdbuf(tc).status = "recording"
        /\ cmdbufs'[tc[1]][tc[2]].status \in {"submitted", "abandoned"}

\* C16 as stated: the only work a thread does while it holds the mutex is
\* the lookup of its pool or the creation and insertion of a new one; it
\* does not hold it in reset or begin, and no submission or fence call
\* takes it.
C16_OnlyLookupInsert ==
    [][/\ \A t \in Threads :
            /\ (Holds(t) /\ threads'[t] # threads[t])
                    => threads[t].pc \in {"fetch", "unlock"}
            /\ threads[t].pc \in {"reset", "begin"} => ~Holds(t)
       /\ SubmissionOrFenceStep => lockOwner' = lockOwner]_vars

\* C16, amended: a thread holds the mutex exactly from the lock to the
\* unlock of its acquire call, that is while its pool is looked up or
\* created and while a buffer is taken from the pool, a growth of the pool
\* included; it does not hold it in reset or begin, and no submission or
\* fence call takes or releases it.
C16_LockScope ==
    [][/\ \A t \in Threads :
            /\ Holds(t) <=> threads[t].pc \in {"fetch", "get", "unlock"}
            /\ threads[t].pc \in {"reset", "begin"} => ~Holds(t)
       /\ SubmissionOrFenceStep => lockOwner' = lockOwner]_vars

\* A thread is about to begin recording with the mutex free, after a
\* command buffer was submitted with a fence that was then waited for.
C16_Witness ==
    /\ lockOwner = 0
    /\ \E t \in Threads : threads[t].pc = "begin"
    /\ \E tc \in Cmdbufs :
        /\ Cmdbuf(tc).status = "submitted"
        /\ Cmdbuf(tc).fence \in Fences
        /\ fences[Cmdbuf(tc).fence].last = "wait"

\* Sequence s is the beginning of sequence r.
IsPrefix(s, r) == Len(s) <= Len(r) /\ SubSeq(r, 1, Len(s)) = s

\* C17: no step removes a pool or an item of the thread-to-pool map or
\* changes the thread an item or a pool is for, and no step lowers the
\* capacity of a pool; the steps are those of acquire, submit, abandon and
\* the fence calls.
C17_PoolsOnlyGrow ==
    [][/\ IsPrefix(hashTable, hashTable')
       /\ Len(commandPools) <= Len(commandPools')
       /\ \A p \in Pools :
            /\ commandPools'[p].threadID = commandPools[p].threadID
            /\ LessEq32(Capacity(p),
                        commandPools'[p].inactiveCommandBufferCapacity)]_vars

\* A pool in the map has grown to capacity 4, and command buffers have
\* been submitted and abandoned and a fence has been reset since.
C17_Witness ==
    /\ \E i \in 1..Len(hashTable) :
            Capacity(hashTable[i].value) = Uint32(4)
    /\ \E tc \in Cmdbufs : Cmdbuf(tc).status = "submitted"
    /\ \E tc \in Cmdbufs : Cmdbuf(tc).status = "abandoned"
    /\ \E f \in Fences : fences[f].last = "reset"

\* The thread a pool is recorded to be for.
Owner(p) == commandPools[p].threadID

\* C18: no two pools are for the same thread ID and no two items of the map
\* have the same key; a buffer bound to a command buffer of thread t is of
\* a pool whose owner is t; and all the calls of a thread that got a pool
\* got the same pool.
C18_OnePoolPerThread ==
    /\ \A p, q \in Pools : p # q => Owner(p) # Owner(q)
    /\ \A i, j \in 1..Len(hashTable) :
            i # j => hashTable[i].key # hashTable[j].key
    /\ \A tc \in Outstanding :
            Cmdbuf(tc).driverdata \in 1..Len(commandBuffers) =>
                Owner(commandBuffers[Cmdbuf(tc).driverdata].commandPool)
                    = ThreadID(tc[1])
    /\ \A tc, ud \in Cmdbufs :
            (tc[1] = ud[1] /\ Cmdbuf(tc).pool # 0 /\ Cmdbuf(ud).pool # 0)
                => Cmdbuf(tc).pool = Cmdbuf(ud).pool

\* C18, in the runs where every backend call has succeeded and one thread
\* only has called the driver.
C18_OneThreadWithoutErrors ==
    (failures = 0 /\ \A tc \in Cmdbufs : tc[1] = 1) => C18_OnePoolPerThread

\* C19: a command buffer object an acquire returned 0 for is bound to a
\* buffer of the pool the call fetched, the call has popped, reset and begun
\* it in this order before binding it, and the buffer is recording.
C19_ReturnedIsRecording ==
    \A tc \in Outstanding :
        /\ Cmdbuf(tc).ret = 0
        /\ Cmdbuf(tc).ops = <<"pop", "reset", "begin", "bind">>
        /\ Cmdbuf(tc).driverdata \in 1..Len(commandBuffers)
        /\ Cmdbuf(tc).driverdata = Cmdbuf(tc).popped
        /\ commandBuffers[Cmdbuf(tc).driverdata].commandPool
                = Cmdbuf(tc).pool
        /\ commandBuffers[Cmdbuf(tc).driverdata].state = "recording"

\* C19, in the runs where every backend call has succeeded.
C19_RecordingWithoutErrors == failures = 0 => C19_ReturnedIsRecording

\* The step is a call that begins a pass on command buffer tc while a pass
\* is open on it.
BeginsNested(tc) ==
    /\ Cmdbuf(tc).status = "recording"
    /\ Cmdbuf(tc).currently_encoding # "none"
    /\ cmdbufs'[tc[1]][tc[2]] # Cmdbuf(tc)
    /\ cmdbufs'[tc[1]][tc[2]].call \in {"Start_render", "Start_blit"}

IssuesPassOp(tc) ==
    /\ Cmdbuf(tc).status = "recording"
    /\ cmdbufs'[tc[1]][tc[2]] # Cmdbuf(tc)
    /\ cmdbufs'[tc[1]][tc[2]].call \in RenderPassOps \cup BlitPassOps

SubmittedTwice(tc) ==
    /\ Cmdbuf(tc).status = "submitted"
    /\ Cmdbuf(tc).call = "Submit"

\* C22: a second submit of a command buffer that was not acquired again
\* since its first submit returns an error.
C22_SecondSubmitRejected ==
    \A tc \in Cmdbufs : SubmittedTwice(tc) => Cmdbuf(tc).ret # 0

\* Buffer b is one of the inactive buffers of pool p: it is in a slot below
\* the pool's count.
OnFreeList(p, b) ==
    \E i \in 1..Len(commandPools[p].inactiveCommandBuffers) :
        /\ LessEq32(Uint32(i), FreeCount(p))
        /\ commandPools[p].inactiveCommandBuffers[i] = b

\* Command buffer tc, acquired from a pool and not submitted, is abandoned.
Abandons(tc) ==
    /\ Cmdbuf(tc).status = "recording"
    /\ Cmdbuf(tc).pool \in Pools
    /\ cmdbufs'[tc[1]][tc[2]].status = "abandoned"

\* C23: abandoning an acquired, unsubmitted command buffer puts it back on
\* the free list of its pool: the free count of the pool is one higher
\* after the call and the buffer is the top of the free list.
C23_AbandonPutsBack ==
    [][\A tc \in Cmdbufs :
        Abandons(tc) =>
            LET p == Cmdbuf(tc).pool
                after == commandPools'[p]
            IN  /\ after.inactiveCommandBufferCount
                        = Add32(FreeCount(p), Uint32(1))
                /\ \E i \in 1..Len(after.inactiveCommandBuffers) :
                        /\ Uint32(i) = after.inactiveCommandBufferCount
                        /\ after.inactiveCommandBuffers[i]
                                = Cmdbuf(tc).driverdata]_vars

\* The command buffers a thread can come to hold.
AllCmdbufs == Threads \X (1..MaxOpBuffers)

\* Command buffer tc has been submitted from a pool.
Submitted(tc) ==
    /\ tc \in Cmdbufs
    /\ Cmdbuf(tc).status = "submitted"
    /\ Cmdbuf(tc).pool \in Pools

\* Command buffer tc is back on the free list of its pool.
Recycled(tc) ==
    /\ tc \in Cmdbufs
    /\ Cmdbuf(tc).pool \in Pools
    /\ OnFreeList(Cmdbuf(tc).pool, Cmdbuf(tc).driverdata)

\* C24: every command buffer that is submitted is eventually back on the
\* free list of its pool.
C24_SubmittedIsRecycled ==
    \A tc \in AllCmdbufs : Submitted(tc) ~> Recycled(tc)

\* Fence f, reset and with no submission attached to it since, is waited
\* on, and the wait returns.
WaitsAfterReset(f) ==
    /\ fences[f].last = "reset"
    /\ ~fences[f].submitted
    /\ fences'[f].last = "wait"

\* C25: a wait on a fence that was reset and has had no submission attached
\* since does not return success.
C25_WaitAfterResetFails ==
    [][\A f \in Fences : WaitsAfterReset(f) => fences'[f].ret # 0]_vars

\* Fence f, attached to a submission that has returned, is queried.
QueriesAfterSubmit(f) ==
    /\ fences[f].submitted
    /\ fences[f].last # "destroy"
    /\ fences'[f] # fences[f]
    /\ fences'[f].last = "query"

\* C26: a query of a fence that was attached to a submission returns
\* signaled (1), and a query of a fence that has not been destroyed can
\* always be made and returns in one step of the calling thread.
C26_QuerySignaledAndImmediate ==
    /\ [][\A f \in Fences :
            QueriesAfterSubmit(f) => fences'[f].ret = 1]_vars
    /\ [](\A f \in Fences :
            (alive /\ fences[f].last # "destroy") => ENABLED QueryFence(f))

\* A fence was attached to a submission and queried afterwards: the query
\* returned signaled.
C26_Witness ==
    \E f \in Fences :
        /\ fences[f].submitted
        /\ fences[f].last = "query"
        /\ fences[f].ret = 1
        /\ \E tc \in Cmdbufs :
                Cmdbuf(tc).status = "submitted" /\ Cmdbuf(tc).fence = f

\* What the device owns once it is created and used: the resources named
\* in its data, and the pools, their buffers and the entries of the map.
OwnedByDevice ==
    {"instance", "logicalDevice", "commandPoolHashTable",
     "acquireCommandBufferLock"}

\* C27: after DestroyDevice none of the resources the device owns is
\* allocated: no instance, logical device, pool map or acquire mutex, and
\* no command pool, command buffer or map entry.
C27_DestroyReleasesAll ==
    pc = "destroyed" =>
        /\ live \cap OwnedByDevice = {}
        /\ hashTable = <<>>
        /\ commandPools = <<>>
        /\ commandBuffers = <<>>

\* C28: when VULKAN_GpuCreateDevice has returned 0, the driver data of the
\* device is set and every slot of its operation table holds a function of
\* the driver; when it has returned an error, the driver data and the table
\* are as they were before the call.
C28_TableAllOrNothing ==
    pc = "done" =>
        /\ result = 0 =>
                /\ device.driverdata
                /\ device.slots = OperationTable
        /\ result # 0 => device = NoDevice

\* The call has returned 0 with the whole table set.
C28_Witness ==
    /\ pc = "done"
    /\ result = 0
    /\ device.driverdata
    /\ device.slots = OperationTable
    /\ "commandPoolHashTable" \in live

\* The step of VULKAN_INTERNAL_CreateLogicalDevice in which vkCreateDevice
\* returns an error: the call is served and no logical device is made.
LogicalDeviceFails ==
    /\ pc = "CreateLogicalDevice"
    /\ pc' # "crashed"
    /\ ~ deviceData'.logicalDevice

\* C29: when vkCreateDevice fails, VULKAN_GpuCreateDevice returns an error
\* at that step and does not go on to the mutex, the pool map and the
\* operation table.
C29_LogicalDeviceFailureFails ==
    [][LogicalDeviceFails => (pc' = "done" /\ result' # 0)]_vars

\* C30: when VULKAN_GpuCreateDevice has returned an error, nothing the call
\* created is still allocated: no dummy window, device data block,
\* instance, surface, logical device, mutex or pool map.
C30_FailureRetainsNothing ==
    (pc = "done" /\ result # 0) => live = {}

\* VULKAN_INTERNAL_CreateInstance has built what it hands to
\* vkCreateInstance.
InstanceBuilt ==
    /\ instanceCall.pc \in {"vkCreateInstance", "returns", "returned"}
    /\ instanceCall.ret # 0

\* The debug extension is among the enabled instance extensions.
DebugUtilsEnabled ==
    \E i \in 1..Len(instanceCall.instanceExtensionNames) :
        instanceCall.instanceExtensionNames[i] = VK_EXT_DEBUG_UTILS

\* The debug message callback is handed to vkCreateInstance.
CallbackInstalled ==
    /\ instanceCall.pNext = "debugMessengerCreateInfo"
    /\ instanceCall.pfnUserCallback = "VULKAN_INTERNAL_DebugCallback"

\* C31: with debug mode requested of VULKAN_GpuCreateDevice and
\* VK_EXT_debug_utils advertised, the extension is enabled and the debug
\* callback installed; with debug mode not requested neither is.
C31_DebugUtilsFollowRequest ==
    InstanceBuilt =>
        /\ (instanceCall.debugModeArg = 1
                /\ VK_EXT_DEBUG_UTILS \in instanceCall.available)
            => (DebugUtilsEnabled /\ CallbackInstalled)
        /\ instanceCall.debugModeArg = 0
            => (~DebugUtilsEnabled /\ ~CallbackInstalled)

----------------------------------------------------------------------------
(* C32 *)

\* The positions in the enumeration of the usable adapters of the highest
\* class present.
UsableTop ==
    {k \in 0..(locals.physicalDeviceCount - 1) :
        /\ PriorityAt(k) = MaxPriority(locals.physicalDeviceCount)
        /\ Usable(AdapterAt(locals, k))}

\* C32: when several usable adapters of the highest class are enumerated,
\* selection commits to the one enumerated last, and to the queue family
\* chosen for that adapter.
C32_LastOfEqualRankWins ==
    (SelectionEnded /\ determineRet = 1) =>
        /\ UsableTop # {}
        /\ deviceData.physicalDevice
                = locals.physicalDevices[Max(UsableTop) + 1]
        /\ deviceData.queueFamilyIndex
                = ChooseQueueFamily(AdapterAt(locals, Max(UsableTop)))

\* Two usable adapters of the highest class were enumerated, the second
\* with another queue family than the first, and selection committed to the
\* second and its queue family.
C32_Witness ==
    /\ SelectionEnded
    /\ determineRet = 1
    /\ {0, 1} \subseteq UsableTop
    /\ Max(UsableTop) = 1
    /\ ChooseQueueFamily(AdapterAt(locals, 0))
            # ChooseQueueFamily(AdapterAt(locals, 1))
    /\ deviceData.physicalDevice = locals.physicalDevices[2]
    /\ deviceData.queueFamilyIndex
            = ChooseQueueFamily(AdapterAt(locals, 1))

----------------------------------------------------------------------------
(* C33 *)

\* The loop checks the adapter at position locals.i.
ChecksCandidate ==
    /\ pc = "Loop"
    /\ locals.i < locals.physicalDeviceCount
    /\ locals'.i = locals.i + 1

\* The step leaves the running best rank, the accepted adapter and its
\* queue family as they were.
KeepsBest ==
    /\ locals'.highestRank = locals.highestRank
    /\ locals'.suitableIndex = locals.suitableIndex
    /\ locals'.suitableQueueFamilyIndex = locals.suitableQueueFamilyIndex

\* C33: a candidate of a class strictly below the running best, and an
\* unusable candidate of the class of the running best, leave the running
\* best rank, the accepted adapter and its queue family unchanged; an
\* accepted adapter is discarded only by an unusable candidate of a
\* strictly higher class.
C33_RejectedKeepsBest ==
    [][ChecksCandidate =>
        LET candidate == AdapterAt(locals, locals.i)
            priority == PriorityAt(locals.i)
        IN  /\ priority < locals.highestRank => KeepsBest
            /\ (priority = locals.highestRank /\ ~ Usable(candidate))
                    => KeepsBest
            /\ (locals.suitableIndex # -1 /\ locals'.suitableIndex = -1)
                    => (priority > locals.highestRank
                            /\ ~ Usable(candidate))]_vars

\* A usable adapter was accepted, then an adapter of a lower class and an
\* unusable adapter of the same class were checked, and the first adapter
\* and its queue family are still the accepted ones.
C33_Witness ==
    /\ pc = "Loop"
    /\ locals.i = 3
    /\ Usable(AdapterAt(locals, 0))
    /\ PriorityAt(1) < PriorityAt(0)
    /\ PriorityAt(2) = PriorityAt(0)
    /\ ~ Usable(AdapterAt(locals, 2))
    /\ locals.suitableIndex = 0
    /\ locals.highestRank = PriorityAt(0)
    /\ locals.suitableQueueFamilyIndex
            = ChooseQueueFamily(AdapterAt(locals, 0))

----------------------------------------------------------------------------
(* C34 *)

\* The candidate has the required extensions, a queue family that is
\* graphics-capable and can present, and swapchain queries that succeed
\* with at least one surface format and one present mode.
MeetsEveryCondition(adapter) ==
    /\ HasRequiredExtensions(adapter)
    /\ HasGraphicsPresentFamily(adapter)
    /\ SwapchainYieldsBoth(adapter)

\* C34: a candidate that meets every condition and is not of a class below
\* the running best is accepted by the loop, with the queue family chosen
\* for it, whatever the index of that family.
C34_PresentCheckedForChosenFamily ==
    [][(ChecksCandidate
            /\ PriorityAt(locals.i) >= locals.highestRank
            /\ MeetsEveryCondition(AdapterAt(locals, locals.i)))
        => /\ locals'.suitableIndex = locals.i
           /\ locals'.suitableQueueFamilyIndex
                = ChooseQueueFamily(AdapterAt(locals, locals.i))]_vars

----------------------------------------------------------------------------
(* C35 *)

\* One of the backend queries the swapchain-support query makes for the
\* adapter returns an error; a list query is made only for a count that is
\* not zero.
BackendQueryFails(adapter) ==
    \/ adapter.swapError \in {"capabilities", "formatCount",
                              "presentModeCount"}
    \/ adapter.swapError = "formatList" /\ adapter.formats # 0
    \/ adapter.swapError = "presentModeList" /\ adapter.presentModes # 0

\* C35: for every candidate the loop has checked, the swapchain-support
\* query returns 0 when one of its backend queries returns an error.
C35_QueryFailsOnAnyError ==
    pc = "Loop" =>
        \A k \in 0..(locals.i - 1) :
            BackendQueryFails(AdapterAt(locals, k)) =>
                QuerySwapChainSupport(deviceData, AdapterAt(locals, k),
                                      UninitDetails(<<0, 0>>)).ret = 0

----------------------------------------------------------------------------
(* C36 *)

\* C36: in the usability check of every candidate, SDL_free is called on
\* the surface-format array and on the present-mode array only while the
\* array is allocated: none is freed twice and none is freed that was
\* never allocated.
C36_ArraysFreedOnce == locals.details.badFrees = 0

----------------------------------------------------------------------------
(* C37 *)

\* The number of command buffers handed out from pool p: the acquires that
\* have taken a buffer from it.
HandedOut(p) ==
    Cardinality({tc \in Cmdbufs :
                    Cmdbuf(tc).pool = p /\ Cmdbuf(tc).popped # 0})

\* C37: in every state the free count of every pool is at most its
\* capacity, and the free count plus the number of buffers handed out is
\* the capacity.
C37_CountWithinCapacity ==
    \A p \in Pools :
        /\ LessEq32(FreeCount(p), Capacity(p))
        /\ Add32(FreeCount(p), Uint32(HandedOut(p))) = Capacity(p)

(* C38 *)

\* The threads that have fetched a pool in one of their acquires.
Acquirers == {t \in Threads : \E tc \in Cmdbufs : tc[1] = t /\ Cmdbuf(tc).pool # 0}

\* The pool the acquires of thread t fetched.
FetchedPools(t) == {Cmdbuf(tc).pool : tc \in {x \in Cmdbufs : x[1] = t}} \ {0}

\* C38: whatever the interleaving of the acquires of distinct threads, the
\* threads that fetched a pool fetched one each and no two of them the same
\* one, the map holds one item per such thread and as many pools exist, and
\* no buffer is bound to the command buffers of two different threads.
C38_ConcurrentAcquiresKeepApart ==
    /\ \A t \in Acquirers : Cardinality(FetchedPools(t)) = 1
    /\ \A t, u \in Acquirers : t # u => FetchedPools(t) \cap FetchedPools(u) = {}
    /\ \A t \in Acquirers : PoolOf(t) \in FetchedPools(t)
    /\ Cardinality(Pools) >= Cardinality(Acquirers)
    /\ \A x, y \in Cmdbufs :
            (x[1] # y[1] /\ Cmdbuf(x).driverdata \in 1..Len(commandBuffers))
                => Cmdbuf(x).driverdata # Cmdbuf(y).driverdata

\* C38, in the runs where every lookup has returned a pool of the looking
\* thread and every backend call has succeeded: the inserts under the mutex
\* are neither lost nor duplicated.
C38_ApartWithoutCollision ==
    (/\ failures = 0
     /\ \A tc \in Cmdbufs :
            Cmdbuf(tc).pool # 0 => Owner(Cmdbuf(tc).pool) = ThreadID(tc[1]))
        => C38_ConcurrentAcquiresKeepApart

(* C39 *)

\* The number of command buffers the threads acquire in SpecLock.
MaxLockAcquires == 2

\* Threads acquire command buffers, fewer than in NextPool.
NextLock ==
    \/ \E t \in Threads : EnterCreateCommandBuffer(t, MaxLockAcquires)
    \/ \E t \in Threads : LockMutex(t)
    \/ \E t \in Threads : FetchCommandPool(t)
    \/ \E t \in Threads : GetInactiveCommandBufferFromPool(t)
    \/ \E t \in Threads : UnlockMutex(t)
    \/ \E t \in Threads : ResetCommandBuffer(t)
    \/ \E t \in Threads : BeginCommandBuffer(t)

\* Threads acquire command buffers under fair scheduling: a thread that is
\* in a call takes its next step, and a thread blocked in SDL_LockMutex gets
\* the mutex if it is free again and again.
SpecLock ==
    /\ InitPool
    /\ [][NextLock]_vars
    /\ \A t \in Threads :
        /\ SF_vars(LockMutex(t))
        /\ WF_vars(FetchCommandPool(t))
        /\ WF_vars(GetInactiveCommandBufferFromPool(t))
        /\ WF_vars(UnlockMutex(t))
        /\ WF_vars(ResetCommandBuffer(t))
        /\ WF_vars(BeginCommandBuffer(t))

\* Thread t of the running process is blocked in SDL_LockMutex.
Waits(t) == alive /\ threads[t].pc = "lock"

\* Thread t is in no acquire call, or in one past its SDL_UnlockMutex.
Released(t) == threads[t].pc \in {"idle", "reset", "begin"}

\* C39: a thread whose acquire call has passed its unlock or has returned,
\* with 0 or with an error, does not hold the acquire mutex; and under fair
\* scheduling every thread blocked on the mutex gets past the lock.
C39_MutexReleasedBeforeReturn ==
    /\ [](\A t \in Threads : Released(t) => ~Holds(t))
    /\ \A t \in Threads : Waits(t) ~> ~Waits(t)

\* A thread is blocked on the mutex while the acquire of another thread
\* holds it and a backend call of that acquire has failed under the mutex.
C39_Witness ==
    \E t, u \in Threads :
        /\ t # u
        /\ Holds(t)
        /\ Waits(u)
        /\ threads[t].pc \in {"get", "unlock"}
        /\ failures > 0

----------------------------------------------------------------------------
(* The clear-screen example *)

\* The largest value of the Uint8 red.
RedMax == 255

\* ((float) red) / 255.0f, as the exact quotient.
ClearColorR(red) == [num |-> red, den |-> RedMax]

\* The update of red and fade_direction at the end of a drawn frame.
Fade(a) ==
    IF a.fade_direction > 0
    THEN IF a.red = RedMax
         THEN [a EXCEPT !.fade_direction = -1]
         ELSE [a EXCEPT !.red = (a.red + 1) % (RedMax + 1)]
    ELSE IF a.fade_direction < 0
    THEN IF a.red = 0
         THEN [a EXCEPT !.fade_direction = 1]
         ELSE [a EXCEPT !.red = (a.red - 1) % (RedMax + 1)]
    ELSE a

\* SDL_AppIterate: one frame. Without a command buffer the application
\* fails; with a swapchain texture the frame clears the window to red and
\* red is updated; the command buffer is submitted either way.
AppIterate ==
    /\ app.result = "SDL_APP_CONTINUE"
    /\ \E cmdbuf \in {"NULL", "cmdbuf"},
          swapchain_texture \in {"NULL", "texture"} :
          app' = IF cmdbuf = "NULL"
                 THEN [app EXCEPT !.result = "SDL_APP_FAILURE"]
                 ELSE IF swapchain_texture # "NULL"
                 THEN Fade([app EXCEPT
                               !.clear_color_r = ClearColorR(app.red)])
                 ELSE app
    /\ UNCHANGED <<adapters, pc, run, first, deviceData, locals,
                   countQueryResult, listQueryResult, determineRet, result,
                   device, live, instanceCall>>
    /\ UNCHANGED poolVars

\* SDL_AppEvent: the quit event ends the program, any other event does
\* nothing.
AppEvent ==
    /\ app.result = "SDL_APP_CONTINUE"
    /\ \E type \in {"SDL_EVENT_QUIT", "other"} :
          app' = IF type = "SDL_EVENT_QUIT"
                 THEN [app EXCEPT !.result = "SDL_APP_SUCCESS"]
                 ELSE app
    /\ UNCHANGED <<adapters, pc, run, first, deviceData, locals,
                   countQueryResult, listQueryResult, determineRet, result,
                   device, live, instanceCall>>
    /\ UNCHANGED poolVars

\* SDL_AppInit has returned SDL_APP_CONTINUE.
InitClear ==
    /\ adapters = <<>>
    /\ instanceCall = NoInstanceCall
    /\ app = [NoApp EXCEPT !.result = "SDL_APP_CONTINUE"]
    /\ Started

NextClear ==
    \/ AppIterate
    \/ AppEvent

SpecClear == InitClear /\ [][NextClear]_vars

(* C40 *)

\* The step is a frame that got a swapchain texture: such a frame, and no
\* other step, changes red or fade_direction.
DrawsFrame ==
    <<app'.red, app'.fade_direction>> # <<app.red, app.fade_direction>>

\* C40: a frame that gets a swapchain texture clears the window to a red
\* different from the red of the frame drawn before it.
C40_ConsecutiveFramesDiffer ==
    [][(DrawsFrame /\ app.clear_color_r # NoColor)
            => app'.clear_color_r # app.clear_color_r]_vars

\* C40 away from the two ends of the fade: a frame drawn with a red other
\* than 0 and 255 clears to a red different from that of the frame before.
C40_DifferBetweenEnds ==
    [][(DrawsFrame /\ app.clear_color_r # NoColor
            /\ app'.clear_color_r.num \notin {0, RedMax})
            => app'.clear_color_r # app.clear_color_r]_vars
====
